---- MODULE Spec2Model ----
(***************************************************************************)
(* Model of the trade lifecycle evaluator (evaluate_signals.py) and of the *)
(* other processes that write the same `signals` row                       *)
(* (send_futures_entry_from_signal.py, sync_futures_closures.py).          *)
(*                                                                         *)
(* One signal row, its 1m candles and its signal_events rows are modelled. *)
(* Representation:                                                         *)
(*   - a price is an integer of 1..MaxPrice;                               *)
(*   - a candle timestamp is the index of the candle in raw_candles, which *)
(*     the evaluator reads ordered by ts from created_at;                  *)
(*   - Python None is <<>> and a present value v is <<v>> for the numeric  *)
(*     and timestamp columns, and the string "null" for exit_level;        *)
(*   - a fraction of the position is in hundredths (0.33 is 33, 1 is 100); *)
(*   - r_at yields R in units of 1/Scale, so partial_profit and r_multiple *)
(*     are in units of 1/(100*Scale) R; mfe and mae are percentages in     *)
(*     units of 1/Scale. Scale is a multiple of every divisor that occurs, *)
(*     so every division of the source is exact in the model.              *)
(* Columns that no modelled code reads back (policy_version, profit_pct,   *)
(* hit_level, avg_exit_price, order ids) are not part of the row.          *)
(***************************************************************************)
EXTENDS Integers, Sequences, FiniteSets, TLC

VARIABLES
    sig,        \* the row of the signals table
    candles,    \* raw_candles of the signal's symbol since created_at, by ts
    events,     \* rows of signal_events for the signal, in insertion order
    pc,         \* evaluator: "idle" | "fix" | "start" | "loop" | "finish"
    s,          \* evaluator: the row as read by fetch_open_signals (or passed in)
    win,        \* evaluator: number of candles returned by fetch_candles_1m
    i,          \* evaluator: index of the candle the for loop is at
    loc,        \* evaluator: local variables of apply_state_machine
    lastWin,    \* history: window length of the last evaluation that was persisted
    created,    \* history: direction and price columns of the row as inserted
    syncPc,     \* sync_futures_closures: "idle" | "write"
    syncInfo,   \* sync_futures_closures: the exit_info it computed
    syncSeen,   \* sync_futures_closures: what Binance answered in the iteration
    table,      \* rows of the signals table, newest first (several signals)
    tick,       \* tick_once over the table: its position and its batch
    sender,     \* send_futures_entry_from_signal: position, MARKET orders sent
    cleanup,    \* cleanup_stale_sl_tp_orders: snapshot, open orders, position
    lastPatch,  \* history: the update computed by the last evaluation not stored
    loggers,    \* log_event calls in flight: position and what each one read
    oco,        \* create_tp1_sl_oco_for_filled_entries: position, OCOs placed
    protective  \* place_sl_and_tp_orders: its arguments and the orders it sent

vars == <<sig, candles, events, pc, s, win, i, loc, lastWin, created,
          syncPc, syncInfo, syncSeen, table, tick, sender, cleanup, lastPatch,
          loggers, oco, protective>>

evalVars == <<pc, s, win, i, loc>>
syncVars == <<syncPc, syncInfo, syncSeen>>
otherVars == <<loggers, oco, protective>>
auxVars == <<table, tick, sender, cleanup, lastPatch, otherVars>>

-----------------------------------------------------------------------------
(* Bounds *)

MaxPrice == 6
MaxCandles == 2
MaxErrors == 2
\* Rows the signals table holds in the model of a tick over several signals.
MaxSignals == 3
\* BATCH_SIZE, the limit tick_once passes to fetch_open_signals (200 by
\* default in the source, scaled down so that the limit cuts a result).
BATCH_SIZE == 2
\* MARKET entry orders the sender sends in a run of the model.
MaxOrders == 2
\* Open orders /fapi/v1/openOrders returns to a cleanup.
MaxOpenOrders == 2
MaxLoggers == 2
MaxEventRows == 4
MaxOcos == 3
MaxQty == 3
MaxLots == 6
MaxStep == 3

RECURSIVE Factorial(_)
Factorial(n) == IF n <= 1 THEN 1 ELSE n * Factorial(n - 1)

Scale == Factorial(MaxPrice)

Prices == 1..MaxPrice

None == <<>>
Some(v) == <<v>>
IsSet(o) == o # <<>>
Val(o) == o[1]

Abs(x) == IF x < 0 THEN -x ELSE x
Max(a, b) == IF a >= b THEN a ELSE b

-----------------------------------------------------------------------------
(* Program constants *)

TP1_FRAC == 33
TP2_FRAC == 33
TP3_FRAC == 34
WHOLE == 100

UNIQUE_EVENTS == {"entered", "hit_tp1", "hit_tp2", "hit_tp3", "hit_sl", "closed"}

ActiveStatuses == {"open", "tp1", "tp2"}

-----------------------------------------------------------------------------
(* Inputs *)

Candles == {c \in [high : Prices, low : Prices] : c.low <= c.high}

NewSignal(dire, entry, stop, tp1, tp2, tp3) ==
    [direction |-> dire, entry |-> entry, stop_loss |-> stop,
     stop_loss_initial |-> None, tp1 |-> tp1, tp2 |-> tp2, tp3 |-> tp3,
     status |-> "open", entered_at |-> None,
     partial_realized |-> 0, partial_profit |-> 0,
     mfe |-> None, mae |-> None,
     exit_at |-> None, exit_level |-> "null", exit_type |-> "null",
     r_multiple |-> None,
     finalized |-> FALSE, futures_entry_sent |-> FALSE]

SignalInputs ==
    { NewSignal("BUY", 3, 1, 4, 5, 6),
      NewSignal("SELL", 4, 6, 3, 2, 1) }

\* Rows with a required column that is NULL, stored as 0 (`not sig.get(k)`
\* holds for NULL and for 0 alike): one without stop_loss, one without tp3.
InvalidSignalInputs ==
    { NewSignal("BUY", 3, 0, 4, 5, 6),
      NewSignal("SELL", 4, 6, 3, 2, 0) }

\* Rows whose stop_loss_initial equals entry: inserted with that
\* stop_loss_initial next to a stop_loss away from entry, or inserted with
\* stop_loss = entry.
DegenerateSignalInputs ==
    { [NewSignal("BUY", 3, 1, 4, 5, 6) EXCEPT !.stop_loss_initial = Some(3)],
      NewSignal("SELL", 4, 4, 3, 2, 1) }

\* Rows that pass the validation with targets out of order: tp2 nearer to
\* entry than tp1.
MisorderedSignalInputs ==
    { NewSignal("BUY", 3, 1, 5, 4, 6),
      NewSignal("SELL", 4, 6, 2, 3, 1) }

-----------------------------------------------------------------------------
(* Pure helpers of evaluate_signals.py *)

\* compute_mfe_mae: <<mfe, mae>> of one candle, in percent times Scale.
compute_mfe_mae(dire, entry, hi, lo) ==
    IF dire = "BUY"
    THEN << ((hi - entry) * 100 * Scale) \div entry,
            ((lo - entry) * 100 * Scale) \div entry >>
    ELSE << ((entry - lo) * 100 * Scale) \div entry,
            ((entry - hi) * 100 * Scale) \div entry >>

\* r_at that takes a risk of 0 for the smallest price step.
r_at_MinimalRisk(price, entry, stop_initial, dire) ==
    LET risk == Max(Abs(entry - stop_initial), 1) IN
    IF dire = "BUY" THEN ((price - entry) * Scale) \div risk
    ELSE ((entry - price) * Scale) \div risk

\* r_at: R-multiple of a price, times Scale.
r_at(price, entry, stop_initial, dire) ==
    LET risk == Abs(entry - stop_initial) IN
    IF risk = 0 THEN 0
    ELSE IF dire = "BUY" THEN ((price - entry) * Scale) \div risk
         ELSE ((entry - price) * Scale) \div risk

\* `missing = [k for k in required if not sig.get(k)]`, for the required
\* columns that are part of the row.
missing(row) ==
    {k \in {"entry", "stop_loss", "tp1", "tp2", "tp3"} : row[k] = 0}
        \cup (IF row.direction = "" THEN {"direction"} ELSE {})

\* EarlyReturn that takes an empty window for an error.
EarlyReturn_EmptyIsError(row, n) ==
    IF missing(row) # {} \/ n = 0 THEN "missing" ELSE "none"

\* Which early return apply_state_machine takes before the loop, for a row and
\* the number n of candles the fetch yields: "missing", "empty" or "none".
\* The validation comes first, so a row with a missing column fetches nothing.
EarlyReturn(row, n) ==
    IF missing(row) # {} THEN "missing"
    ELSE IF n = 0 THEN "empty"
    ELSE "none"

\* float(sig.get("stop_loss_initial") or sl_db)
StopInitial(row) ==
    IF IsSet(row.stop_loss_initial) THEN Val(row.stop_loss_initial)
    ELSE row.stop_loss

\* FixStopLossInitial that writes the column on every tick.
FixStopLossInitial_EveryTick(db, row) ==
    [db EXCEPT !.stop_loss_initial = Some(row.stop_loss)]

\* tick_once, lines 388-394: the row after the stop_loss_initial fix of a signal
\* read as `row`. A NULL stop_loss (0 here) is copied as NULL.
FixStopLossInitial(db, row) ==
    IF ~IsSet(row.stop_loss_initial)
    THEN [db EXCEPT !.stop_loss_initial =
                        IF row.stop_loss = 0 THEN None ELSE Some(row.stop_loss)]
    ELSE db

\* log_event that inserts every call.
log_event_NoDedup(evs, e) == Append(evs, e)

\* log_event that inserts no type twice.
log_event_AllUnique(evs, e) ==
    IF \E k \in 1..Len(evs) : evs[k].event = e.event THEN evs ELSE Append(evs, e)

\* log_event: milestone types are inserted only when no row of that type exists.
log_event(evs, e) ==
    IF e.event \in UNIQUE_EVENTS /\ \E k \in 1..Len(evs) : evs[k].event = e.event
    THEN evs
    ELSE Append(evs, e)

RECURSIVE LogAll(_, _)
LogAll(evs, es) ==
    IF es = <<>> THEN evs ELSE LogAll(log_event(evs, Head(es)), Tail(es))

Ev(type, price, ts) == [event |-> type, price |-> price, ts |-> ts]

-----------------------------------------------------------------------------
(* apply_state_machine: the body of the for loop over the candles *)

\* Local variables that take entered_at from a logged `entered` event.
InitLocals_ResumesFromEvents(row) ==
    LET logged == {k \in DOMAIN events : events[k].event = "entered"}
    IN [status |-> row.status,
        entered_at |-> IF logged = {} THEN row.entered_at
                       ELSE Some(events[CHOOSE k \in logged : TRUE].ts),
        partial_real |-> row.partial_realized,
        partial_profit |-> row.partial_profit,
        exit_at |-> None,
        exit_level |-> "null",
        mfe_best |-> row.mfe,
        mae_worst |-> row.mae]

\* Local variables of apply_state_machine as set before the loop.
InitLocals(row) ==
    [status |-> row.status,
     entered_at |-> row.entered_at,
     partial_real |-> row.partial_realized,
     partial_profit |-> row.partial_profit,
     exit_at |-> None,
     exit_level |-> "null",
     mfe_best |-> row.mfe,
     mae_worst |-> row.mae]

\* SlWorking that is the stored stop whatever the status.
SlWorking_AlwaysStored(status, row) == row.stop_loss

\* SlWorking with the stop of tp2 at entry.
SlWorking_Tp2AtEntry(status, row) ==
    IF status \in {"tp1", "tp2"} THEN row.entry ELSE row.stop_loss

\* The effective stop of a candle, from the status held when the candle starts.
SlWorking(status, row) ==
    IF status = "tp1" THEN row.entry
    ELSE IF status = "tp2" THEN row.tp1
    ELSE row.stop_loss

\* HitSl whose SELL side tests the candle's low.
HitSl_SellUsesLow(dire, c, sl_working) ==
    IF dire = "BUY" THEN c.low <= sl_working ELSE c.low >= sl_working

HitSl(dire, c, sl_working) ==
    IF dire = "BUY" THEN c.low <= sl_working ELSE c.high >= sl_working

HitTp(dire, c, tp) ==
    IF dire = "BUY" THEN c.high >= tp ELSE c.low <= tp

\* lo <= entry <= hi
ContainsEntry(row, c) == c.low <= row.entry /\ row.entry <= c.high

\* StopExit with a hard stop that does not set the status.
StopExit_HardStopKeepsStatus(row, l, ts, sl_working) ==
    LET prev == l.status
        frac_rem == Max(0, WHOLE - l.partial_real)
    IN
    IF prev = "tp1" THEN
        [l |-> [l EXCEPT !.exit_level = "be", !.exit_at = Some(ts),
                         !.status = "close"],
         logs |-> << Ev("closed", row.entry, ts) >>]
    ELSE IF prev = "tp2" THEN
        LET r_extra == r_at(sl_working, row.entry, StopInitial(row), row.direction)
                          * frac_rem
        IN
        [l |-> [l EXCEPT !.exit_level = "sl_trailing", !.exit_at = Some(ts),
                         !.partial_profit = @ + r_extra,
                         !.partial_real = WHOLE,
                         !.status = "close"],
         logs |-> << Ev("closed", sl_working, ts) >>]
    ELSE
        [l |-> [l EXCEPT !.exit_level = "sl", !.exit_at = Some(ts)],
         logs |-> << Ev("hit_sl", sl_working, ts) >>]

\* StopExit with a trailing exit that adds 1 to partial_real instead of setting it.
StopExit_TrailingAddsWhole(row, l, ts, sl_working) ==
    LET prev == l.status
        frac_rem == Max(0, WHOLE - l.partial_real)
    IN
    IF prev = "tp1" THEN
        [l |-> [l EXCEPT !.exit_level = "be", !.exit_at = Some(ts),
                         !.status = "close"],
         logs |-> << Ev("closed", row.entry, ts) >>]
    ELSE IF prev = "tp2" THEN
        LET r_extra == r_at(sl_working, row.entry, StopInitial(row), row.direction)
                          * frac_rem
        IN
        [l |-> [l EXCEPT !.exit_level = "sl_trailing", !.exit_at = Some(ts),
                         !.partial_profit = @ + r_extra,
                         !.partial_real = @ + WHOLE,
                         !.status = "close"],
         logs |-> << Ev("closed", sl_working, ts) >>]
    ELSE
        [l |-> [l EXCEPT !.exit_level = "sl", !.exit_at = Some(ts),
                         !.status = "close"],
         logs |-> << Ev("hit_sl", sl_working, ts) >>]

\* The `if hit_sl:` block: the exit taken for the status held before the candle.
StopExit(row, l, ts, sl_working) ==
    LET prev == l.status
        frac_rem == Max(0, WHOLE - l.partial_real)
    IN
    IF prev = "tp1" THEN
        [l |-> [l EXCEPT !.exit_level = "be", !.exit_at = Some(ts),
                         !.status = "close"],
         logs |-> << Ev("closed", row.entry, ts) >>]
    ELSE IF prev = "tp2" THEN
        LET r_extra == r_at(sl_working, row.entry, StopInitial(row), row.direction)
                          * frac_rem
        IN
        [l |-> [l EXCEPT !.exit_level = "sl_trailing", !.exit_at = Some(ts),
                         !.partial_profit = @ + r_extra,
                         !.partial_real = WHOLE,
                         !.status = "close"],
         logs |-> << Ev("closed", sl_working, ts) >>]
    ELSE
        [l |-> [l EXCEPT !.exit_level = "sl", !.exit_at = Some(ts),
                         !.status = "close"],
         logs |-> << Ev("hit_sl", sl_working, ts) >>]

\* `if status=="open" and hit_tp1:`
Tp1Step(row, x, c, ts) ==
    IF x.l.status = "open" /\ HitTp(row.direction, c, row.tp1) THEN
        LET pr == r_at(row.tp1, row.entry, StopInitial(row), row.direction) * TP1_FRAC
        IN [x EXCEPT !.l.status = "tp1",
                     !.l.partial_real = @ + TP1_FRAC,
                     !.l.partial_profit = @ + pr,
                     !.logs = Append(@, Ev("hit_tp1", row.tp1, ts))]
    ELSE x

\* Tp2Step without the test of the status.
Tp2Step_NoStatusGuard(row, x, c, ts) ==
    IF HitTp(row.direction, c, row.tp2) THEN
        LET pr == r_at(row.tp2, row.entry, StopInitial(row), row.direction) * TP2_FRAC
        IN [x EXCEPT !.l.status = "tp2",
                     !.l.partial_real = @ + TP2_FRAC,
                     !.l.partial_profit = @ + pr,
                     !.logs = Append(@, Ev("hit_tp2", row.tp2, ts))]
    ELSE x

\* `if status in ("tp1","open") and hit_tp2:`
Tp2Step(row, x, c, ts) ==
    IF x.l.status \in {"tp1", "open"} /\ HitTp(row.direction, c, row.tp2) THEN
        LET pr == r_at(row.tp2, row.entry, StopInitial(row), row.direction) * TP2_FRAC
        IN [x EXCEPT !.l.status = "tp2",
                     !.l.partial_real = @ + TP2_FRAC,
                     !.l.partial_profit = @ + pr,
                     !.logs = Append(@, Ev("hit_tp2", row.tp2, ts))]
    ELSE x

\* Tp3Step without the break.
Tp3Step_NoBreak(row, x, c, ts) ==
    IF x.l.status \in {"tp2", "tp1", "open"} /\ HitTp(row.direction, c, row.tp3) THEN
        LET frac_rem == Max(0, WHOLE - x.l.partial_real)
            pr == r_at(row.tp3, row.entry, StopInitial(row), row.direction) * frac_rem
        IN [x EXCEPT !.l.status = "tp3",
                     !.l.exit_level = "tp3",
                     !.l.exit_at = Some(ts),
                     !.l.partial_profit = @ + pr,
                     !.l.partial_real = WHOLE,
                     !.logs = Append(@, Ev("hit_tp3", row.tp3, ts))]
    ELSE x

\* `if status in ("tp2","tp1","open") and hit_tp3:` ... break
Tp3Step(row, x, c, ts) ==
    IF x.l.status \in {"tp2", "tp1", "open"} /\ HitTp(row.direction, c, row.tp3) THEN
        LET frac_rem == Max(0, WHOLE - x.l.partial_real)
            pr == r_at(row.tp3, row.entry, StopInitial(row), row.direction) * frac_rem
        IN [x EXCEPT !.l.status = "tp3",
                     !.l.exit_level = "tp3",
                     !.l.exit_at = Some(ts),
                     !.l.partial_profit = @ + pr,
                     !.l.partial_real = WHOLE,
                     !.logs = Append(@, Ev("hit_tp3", row.tp3, ts)),
                     !.brk = TRUE]
    ELSE x

\* The running extrema, updated when the candle ended without break.
Excursion(row, l, c) ==
    LET m == compute_mfe_mae(row.direction, row.entry, c.high, c.low)
        mfe == m[1]
        mae == m[2]
    IN [l EXCEPT
          !.mfe_best = IF ~IsSet(@) \/ mfe > Val(@) THEN Some(mfe) ELSE @,
          !.mae_worst = IF ~IsSet(@) \/ mae < Val(@) THEN Some(mae) ELSE @]

\* AfterEntry with the targets tested before the stop.
AfterEntry_TargetsFirst(row, x, c, ts) ==
    LET sl_working == SlWorking(x.l.status, row)
        y == Tp3Step(row, Tp2Step(row, Tp1Step(row, x, c, ts), c, ts), c, ts)
    IN
    IF y.brk THEN y
    ELSE IF HitSl(row.direction, c, sl_working) THEN
        LET e == StopExit(row, y.l, ts, sl_working)
        IN [l |-> e.l, logs |-> y.logs \o e.logs, brk |-> TRUE]
    ELSE [y EXCEPT !.l = Excursion(row, y.l, c)]

\* A candle from the stop test on: stop first, then the targets in order.
AfterEntry(row, x, c, ts) ==
    LET sl_working == SlWorking(x.l.status, row) IN
    IF HitSl(row.direction, c, sl_working) THEN
        LET e == StopExit(row, x.l, ts, sl_working)
        IN [l |-> e.l, logs |-> x.logs \o e.logs, brk |-> TRUE]
    ELSE
        LET y == Tp3Step(row, Tp2Step(row, Tp1Step(row, x, c, ts), c, ts), c, ts)
        IN IF y.brk THEN y
           ELSE [y EXCEPT !.l = Excursion(row, y.l, c)]

\* An iteration that only records the entry on the candle that contains it
\* and tests the candles after it.
ProcessCandle_EntryCandleSkipped(row, l, c, ts) ==
    LET x0 == [l |-> l, logs |-> <<>>, brk |-> FALSE] IN
    IF ~IsSet(l.entered_at) THEN
        IF ContainsEntry(row, c) THEN
            [x0 EXCEPT !.l.entered_at = Some(ts),
                       !.logs = << Ev("entered", row.entry, ts) >>]
        ELSE x0
    ELSE AfterEntry(row, x0, c, ts)

\* One iteration of `for c in candles:`. The result holds the locals after the
\* iteration, the log_event calls it made, in order, and whether it ended in break.
ProcessCandle(row, l, c, ts) ==
    LET x0 == [l |-> l, logs |-> <<>>, brk |-> FALSE] IN
    IF ~IsSet(l.entered_at) THEN
        IF ContainsEntry(row, c) THEN
            AfterEntry(row,
                       [x0 EXCEPT !.l.entered_at = Some(ts),
                                  !.logs = << Ev("entered", row.entry, ts) >>],
                       c, ts)
        ELSE x0
    ELSE AfterEntry(row, x0, c, ts)

-----------------------------------------------------------------------------
(* apply_state_machine: the update written after the loop *)

\* NewStop with a breakeven exit that restores the initial stop.
NewStop_BeRestoresInitial(row, l) ==
    LET byStatus == IF l.status = "tp1" THEN Some(row.entry)
                    ELSE IF l.status = "tp2" THEN Some(row.tp1)
                    ELSE None
    IN IF IsSet(l.exit_at) /\ l.exit_level = "be" THEN Some(StopInitial(row))
       ELSE IF IsSet(l.exit_at) /\ l.exit_level = "sl_trailing" THEN Some(row.tp1)
       ELSE byStatus

\* new_stop set by the exit level alone, not by the status.
NewStop_ExitOnly(row, l) ==
    IF IsSet(l.exit_at) /\ l.exit_level = "be" THEN Some(row.entry)
    ELSE IF IsSet(l.exit_at) /\ l.exit_level = "sl_trailing" THEN Some(row.tp1)
    ELSE None

\* The stop stored with the row: `new_stop`, written when it differs from sl_db.
NewStop(row, l) ==
    LET byStatus == IF l.status = "tp1" THEN Some(row.entry)
                    ELSE IF l.status = "tp2" THEN Some(row.tp1)
                    ELSE None
        byExit == IF IsSet(l.exit_at) /\ l.exit_level = "be" THEN Some(row.entry)
                  ELSE IF IsSet(l.exit_at) /\ l.exit_level = "sl_trailing"
                       THEN Some(row.tp1)
                  ELSE byStatus
    IN byExit

\* ApplyUpdate that writes the exit columns whether or not exit_at is set.
ApplyUpdate_AlwaysFinal(db, row, l) ==
    LET new_stop == NewStop(row, l)
        a == [db EXCEPT !.mfe = l.mfe_best,
                        !.mae = l.mae_worst,
                        !.status = l.status,
                        !.partial_realized = l.partial_real,
                        !.partial_profit = l.partial_profit]
        b == IF IsSet(l.entered_at) THEN [a EXCEPT !.entered_at = l.entered_at] ELSE a
        c == IF IsSet(new_stop) /\ Val(new_stop) # row.stop_loss
             THEN [b EXCEPT !.stop_loss = Val(new_stop)] ELSE b
    IN [c EXCEPT !.exit_at = l.exit_at,
                 !.exit_level = l.exit_level,
                 !.r_multiple = Some(l.partial_profit),
                 !.finalized = TRUE]

\* The row after supabase...update(update).eq("id", sid): the columns named by
\* `update` take its values, the others keep the stored ones.
ApplyUpdate(db, row, l) ==
    LET new_stop == NewStop(row, l)
        a == [db EXCEPT !.mfe = l.mfe_best,
                        !.mae = l.mae_worst,
                        !.status = l.status,
                        !.partial_realized = l.partial_real,
                        !.partial_profit = l.partial_profit]
        b == IF IsSet(l.entered_at) THEN [a EXCEPT !.entered_at = l.entered_at] ELSE a
        c == IF IsSet(new_stop) /\ Val(new_stop) # row.stop_loss
             THEN [b EXCEPT !.stop_loss = Val(new_stop)] ELSE b
    IN IF IsSet(l.exit_at)
       THEN [c EXCEPT !.exit_at = l.exit_at,
                      !.exit_level = l.exit_level,
                      !.r_multiple = Some(l.partial_profit),
                      !.finalized = TRUE]
       ELSE c

\* The dict `update` handed to supabase: a key the code leaves out is None
\* (exit_level "absent", finalized FALSE).
update(row, l) ==
    LET new_stop == NewStop(row, l)
        final == IsSet(l.exit_at)
    IN [mfe |-> l.mfe_best,
        mae |-> l.mae_worst,
        status |-> l.status,
        partial_realized |-> l.partial_real,
        partial_profit |-> l.partial_profit,
        entered_at |-> l.entered_at,
        stop_loss |-> IF IsSet(new_stop) /\ Val(new_stop) # row.stop_loss
                      THEN new_stop ELSE None,
        exit_at |-> l.exit_at,
        exit_level |-> IF final THEN l.exit_level ELSE "absent",
        r_multiple |-> IF final THEN Some(l.partial_profit) ELSE None,
        finalized |-> final]

-----------------------------------------------------------------------------
(* sync_futures_closures.py and send_futures_entry_from_signal.py *)

\* The current minute, on the scale of the candle timestamps.
NowTs == Len(candles)

\* infer_exit_from_orders: <<exit_type, exit_level>> from the protective order
\* that Binance reports FILLED ("none" when no order of the signal is FILLED).
infer_exit_from_orders(filled) ==
    IF filled = "tp3" THEN <<"tp", "tp3">>
    ELSE IF filled = "tp2" THEN <<"tp", "tp2">>
    ELSE IF filled = "tp1" THEN <<"tp", "tp1">>
    ELSE IF filled = "sl" THEN <<"sl", "sl">>
    ELSE <<"manual", "manual">>

\* compute_exit_from_trades, for closing trades at exit_price at minute exit_time.
\* profit is the numerator of profit_pct (its denominator, entry, is positive).
compute_exit_from_trades(row, exit_price, exit_time) ==
    LET profit == IF row.direction = "BUY" THEN exit_price - row.entry
                  ELSE row.entry - exit_price
        sl_dist == Abs(row.entry - row.stop_loss)
        atStop == exit_price = row.stop_loss
    IN [exit_time |-> exit_time,
        profit |-> profit,
        r_multiple |-> IF sl_dist > 0
                       THEN Some((profit * Scale * WHOLE) \div sl_dist)
                       ELSE None,
        exit_type |-> IF atStop THEN "sl" ELSE "manual",
        exit_level |-> IF atStop THEN "sl" ELSE "manual"]

\* The exit_info handed to update_signal_closed by main.
ExitInfo(row, exit_price, exit_time, filled) ==
    LET info == compute_exit_from_trades(row, exit_price, exit_time)
        ord == infer_exit_from_orders(filled)
    IN IF ord[1] # "manual" \/ ord[2] # "manual"
       THEN [info EXCEPT !.exit_type = ord[1], !.exit_level = ord[2]]
       ELSE info

valid_levels == {"sl", "tp1", "tp2", "tp3", "be"}

\* str.lower() on the texts an exit_type or exit_level can hold; None ("null")
\* stays None for a level and is read as "" for a type, neither of which is a
\* level or 'manual'.
Lower(text) ==
    CASE text = "MANUAL" -> "manual"
      [] text = "SL" -> "sl"
      [] text = "TP" -> "tp"
      [] text = "TP2" -> "tp2"
      [] text = "BE" -> "be"
      [] OTHER -> text

\* The exit_level written when the raw level is kept whatever it is.
ExitLevelNorm_KeepsRaw(info) == Lower(info.exit_level)

\* update_signal_closed: the exit_level written.
ExitLevelNorm(info) ==
    IF Lower(info.exit_type) = "manual" THEN
        IF Lower(info.exit_level) \in valid_levels THEN Lower(info.exit_level)
        ELSE IF info.profit >= 0 THEN "tp1" ELSE "sl"
    ELSE
        IF Lower(info.exit_level) \in valid_levels THEN Lower(info.exit_level)
        ELSE "sl"

\* update_signal_closed: the exit_type written.
ExitTypeDb(info) == IF ExitLevelNorm(info) = "sl" THEN "sl" ELSE "tp"

\* update_signal_closed writing the status 'closed'.
update_signal_closed_StatusClosed(db, info) ==
    LET a == [db EXCEPT !.status = "closed",
                        !.exit_at = Some(info.exit_time),
                        !.exit_level = ExitLevelNorm(info),
                        !.exit_type = ExitTypeDb(info),
                        !.finalized = TRUE]
    IN IF IsSet(info.r_multiple) THEN [a EXCEPT !.r_multiple = info.r_multiple]
       ELSE a

\* update_signal_closed: the row after its update.
update_signal_closed(db, info) ==
    LET a == [db EXCEPT !.status = "close",
                        !.exit_at = Some(info.exit_time),
                        !.exit_level = ExitLevelNorm(info),
                        !.exit_type = ExitTypeDb(info),
                        !.finalized = TRUE]
    IN IF IsSet(info.r_multiple) THEN [a EXCEPT !.r_multiple = info.r_multiple]
       ELSE a

\* send_futures_entry_from_signal.main: the update that marks the signal as sent.
MarkEntrySent(db, now) ==
    [db EXCEPT !.futures_entry_sent = TRUE, !.entered_at = Some(now)]

-----------------------------------------------------------------------------
(* State machine *)

Idle == <<>>

InitWith(rows) ==
    /\ sig \in rows
    /\ candles = <<>>
    /\ events = <<>>
    /\ pc = "idle"
    /\ s = Idle
    /\ win = 0
    /\ i = 0
    /\ loc = Idle
    /\ lastWin = 0
    /\ created = [direction |-> sig.direction, entry |-> sig.entry,
                  stop_loss |-> sig.stop_loss,
                  tp1 |-> sig.tp1, tp2 |-> sig.tp2, tp3 |-> sig.tp3]
    /\ syncPc = "idle"
    /\ syncInfo = Idle
    /\ syncSeen = Idle

\* The processes modelled on their own are at rest.
AuxIdle ==
    /\ table = <<>>
    /\ tick = Idle
    /\ sender = Idle
    /\ cleanup = Idle
    /\ lastPatch = Idle
    /\ loggers = Idle
    /\ oco = Idle
    /\ protective = Idle

Init == InitWith(SignalInputs) /\ AuxIdle

\* upsert_ohlcv_1m: the next 1m candle of the symbol is stored. The evaluator
\* reads raw_candles once per evaluation (Start), so a candle stored while an
\* evaluation runs is seen exactly as one stored right after it: arrivals are
\* taken between evaluations.
AddCandle ==
    /\ Len(candles) < MaxCandles
    /\ pc = "idle"
    /\ \E c \in Candles : candles' = Append(candles, c)
    /\ UNCHANGED <<sig, events, evalVars, lastWin, created, syncVars, auxVars>>

\* The error events recorded so far; one more is recorded by every evaluation
\* of a row with a missing column, so the evaluations of such a row are bounded.
ErrorsLogged == Cardinality({k \in 1..Len(events) : events[k].event = "error"})
MayEvaluate == missing(sig) = {} \/ ErrorsLogged < MaxErrors

\* tick_once: fetch_open_signals returns the signal when its status is active.
Fetch ==
    /\ pc = "idle"
    /\ sig.status \in ActiveStatuses
    /\ MayEvaluate
    /\ s' = sig
    /\ pc' = "fix"
    /\ UNCHANGED <<sig, candles, events, win, i, loc, lastWin, created, syncVars, auxVars>>

\* tick_once: stop_loss_initial is stored for a signal read without it.
FixInitial ==
    /\ pc = "fix"
    /\ sig' = FixStopLossInitial(sig, s)
    /\ pc' = "start"
    /\ UNCHANGED <<candles, events, s, win, i, loc, lastWin, created, syncVars, auxVars>>

\* apply_state_machine up to the loop: a missing column is logged as an error
\* and is a return; otherwise the candles are fetched, and none is a return.
Start ==
    /\ pc = "start"
    /\ LET ret == EarlyReturn(s, Len(candles)) IN
       IF ret = "missing"
       THEN /\ events' = log_event(events, Ev("error", None, None))
            /\ pc' = "idle"
            /\ s' = Idle
            /\ UNCHANGED <<win, i, loc>>
       ELSE /\ events' = events
            /\ win' = Len(candles)
            /\ IF ret = "empty"
               THEN /\ pc' = "idle"
                    /\ s' = Idle
                    /\ UNCHANGED <<i, loc>>
               ELSE /\ pc' = "loop"
                    /\ i' = 1
                    /\ loc' = InitLocals(s)
                    /\ s' = s
    /\ UNCHANGED <<sig, candles, lastWin, created, syncVars, auxVars>>

\* apply_state_machine: one iteration of the loop, with its log_event calls.
LoopStep ==
    /\ pc = "loop"
    /\ LET x == ProcessCandle(s, loc, candles[i], i) IN
        /\ loc' = x.l
        /\ events' = LogAll(events, x.logs)
        /\ IF x.brk \/ i = win
           THEN pc' = "finish" /\ i' = i
           ELSE pc' = "loop" /\ i' = i + 1
    /\ UNCHANGED <<sig, candles, s, win, lastWin, created, syncVars, auxVars>>

\* apply_state_machine: the update of the signals row.
Finish ==
    /\ pc = "finish"
    /\ sig' = ApplyUpdate(sig, s, loc)
    /\ lastWin' = win
    /\ pc' = "idle"
    /\ s' = Idle
    /\ loc' = Idle
    /\ i' = 0
    /\ win' = 0
    /\ UNCHANGED <<candles, events, created, syncVars, auxVars>>

Evaluator == Fetch \/ FixInitial \/ Start \/ LoopStep \/ Finish

Next == AddCandle \/ Evaluator

Spec == Init /\ [][Next]_vars

-----------------------------------------------------------------------------
(* The evaluator called on whatever row is stored *)

\* apply_state_machine(sig) for the stored row, without the filter of
\* fetch_open_signals and without the stop_loss_initial fix of tick_once.
DirectCall ==
    /\ pc = "idle"
    /\ MayEvaluate
    /\ s' = sig
    /\ pc' = "start"
    /\ UNCHANGED <<sig, candles, events, win, i, loc, lastWin, created, syncVars, auxVars>>

NextDirect == AddCandle \/ Evaluator \/ DirectCall

SpecDirect == Init /\ [][NextDirect]_vars

-----------------------------------------------------------------------------
(* One tick per window: a candle arrives, then tick_once runs *)

\* A candle arrives once the tick over the present window has run.
AddCandleTicked == lastWin = Len(candles) /\ AddCandle

\* tick_once runs once over a window that has a new candle.
FetchNewWindow == lastWin < Len(candles) /\ Fetch

NextReplay ==
    \/ AddCandleTicked
    \/ FetchNewWindow
    \/ FixInitial
    \/ Start
    \/ LoopStep
    \/ Finish

SpecReplay == Init /\ [][NextReplay]_vars

\* The signal as it was created.
Fresh ==
    NewSignal(created.direction, created.entry, created.stop_loss,
              created.tp1, created.tp2, created.tp3)

\* The for loop of apply_state_machine over candles k..n, from locals l.
RECURSIVE ReplayFrom(_, _, _, _)
ReplayFrom(row, l, k, n) ==
    IF k > n THEN l
    ELSE LET x == ProcessCandle(row, l, candles[k], k)
         IN IF x.brk THEN x.l ELSE ReplayFrom(row, x.l, k + 1, n)

\* The row a single evaluation of the record stores over candles 1..n.
OneShot(row, n) == ApplyUpdate(row, row, ReplayFrom(row, InitLocals(row), 1, n))

-----------------------------------------------------------------------------
(* apply_state_machine evaluated without its update being stored *)

\* The evaluation ends with the update dict built and not stored; lastPatch
\* keeps the record evaluated, the length of its window and the dict.
FinishDry ==
    /\ pc = "finish"
    /\ lastPatch' = [row |-> s, win |-> win, patch |-> update(s, loc)]
    /\ pc' = "idle"
    /\ s' = Idle
    /\ loc' = Idle
    /\ i' = 0
    /\ win' = 0
    /\ UNCHANGED <<sig, candles, events, lastWin, created, syncVars,
                   table, tick, sender, cleanup,
                   otherVars>>

\* A candle arrives; the dict kept from an evaluation over the shorter window
\* is dropped, since no later evaluation has that window.
AddCandleDry ==
    /\ Len(candles) < MaxCandles
    /\ pc = "idle"
    /\ \E c \in Candles : candles' = Append(candles, c)
    /\ lastPatch' = Idle
    /\ UNCHANGED <<sig, events, evalVars, lastWin, created, syncVars,
                   table, tick, sender, cleanup,
                   otherVars>>

NextDry == AddCandleDry \/ DirectCall \/ Start \/ LoopStep \/ Finish \/ FinishDry

SpecDry == Init /\ [][NextDry]_vars

-----------------------------------------------------------------------------
(* The evaluator over rows with and without a missing required column *)

InitAnyRow == InitWith(SignalInputs \cup InvalidSignalInputs) /\ AuxIdle

SpecAnyRow == InitAnyRow /\ [][Next]_vars

-----------------------------------------------------------------------------
(* The evaluator next to the entry sender and the closure sync *)

\* What Binance reports for a closed position: the closing trades' price, here
\* a losing and a winning one, and which protective order of the signal is FILLED.
ClosePrices(row) == {row.stop_loss, row.tp1}
FilledOrders == {"none", "tp1"}

\* send_futures_entry_from_signal.main: the pending signal (status open,
\* futures_entry_sent false) is marked as sent, with entered_at = utcnow.
SendEntry ==
    /\ sig.status = "open"
    /\ ~sig.futures_entry_sent
    /\ sig' = MarkEntrySent(sig, NowTs)
    /\ UNCHANGED <<candles, events, evalVars, lastWin, created, syncVars, auxVars>>

\* sync_futures_closures.main: the signal is read as open and sent, Binance
\* reports no position and closing trades, and exit_info is computed.
SyncFetch ==
    /\ syncPc = "idle"
    /\ sig.status = "open"
    /\ sig.futures_entry_sent
    /\ \E exit_price \in ClosePrices(sig), filled \in FilledOrders :
          syncInfo' = ExitInfo(sig, exit_price, NowTs, filled)
    /\ syncPc' = "write"
    /\ UNCHANGED <<sig, candles, events, evalVars, lastWin, created, syncSeen, auxVars>>

\* sync_futures_closures.update_signal_closed
SyncWrite ==
    /\ syncPc = "write"
    /\ sig' = update_signal_closed(sig, syncInfo)
    /\ syncPc' = "idle"
    /\ syncInfo' = Idle
    /\ UNCHANGED <<candles, events, evalVars, lastWin, created, syncSeen, auxVars>>

\* Candle arrival for the interleaving runs: one-minute bars that trade at a
\* single price, which keeps every level reachable with fewer windows.
NarrowCandles == {c \in Candles : c.high = c.low}

AddNarrowCandle ==
    /\ Len(candles) < MaxCandles
    /\ pc = "idle"
    /\ \E c \in NarrowCandles : candles' = Append(candles, c)
    /\ UNCHANGED <<sig, events, evalVars, lastWin, created, syncVars, auxVars>>

NextConc == AddNarrowCandle \/ Evaluator \/ SendEntry \/ SyncFetch \/ SyncWrite

SpecConc == Init /\ [][NextConc]_vars

-----------------------------------------------------------------------------
(* The evaluator next to the entry sender alone *)

\* With the sender, entered_at can be stored before any candle contains entry,
\* so a stored tp1 or tp2 can survive the replay of a later tick.
NextEntry == AddCandle \/ Evaluator \/ SendEntry

SpecEntry == Init /\ [][NextEntry]_vars

-----------------------------------------------------------------------------
(* Signals whose risk distance is 0 *)

InitDegenerate == InitWith(DegenerateSignalInputs) /\ AuxIdle

SpecDegenerate == InitDegenerate /\ [][NextEntry]_vars

-----------------------------------------------------------------------------
(* Signals with their targets in any order *)

InitAnyOrder == InitWith(SignalInputs \cup MisorderedSignalInputs) /\ AuxIdle

SpecAnyOrder == InitAnyOrder /\ [][NextEntry]_vars

\* ---------------------------------------------------------------------------
\* A BUY record and its reflection as a SELL record, evaluated side by side.
\* ---------------------------------------------------------------------------

\* BUY records whose reflection around the entry keeps every price positive.
MirrorBuyInputs == { NewSignal("BUY", 4, st, 5, 6, 7) : st \in 1..3 }

MirrorPrices == 1..(MaxPrice + 1)

\* The price as far on the other side of the entry.
Reflect(p, entry) == 2 * entry - p

ReflectCandle(c, entry) ==
    [high |-> Reflect(c.low, entry), low |-> Reflect(c.high, entry)]

ReflectCandles(cs, entry) ==
    [k \in DOMAIN cs |-> ReflectCandle(cs[k], entry)]

Mirror(row) ==
    [row EXCEPT !.direction = "SELL",
                !.stop_loss = Reflect(row.stop_loss, row.entry),
                !.tp1 = Reflect(row.tp1, row.entry),
                !.tp2 = Reflect(row.tp2, row.entry),
                !.tp3 = Reflect(row.tp3, row.entry)]

\* The candle loop of apply_state_machine over the candles cs, with the
\* events it logs.
RECURSIVE ReplayOver(_, _, _, _)
ReplayOver(row, acc, cs, k) ==
    IF k > Len(cs) THEN acc
    ELSE LET x == ProcessCandle(row, acc.l, cs[k], k)
             nxt == [l |-> x.l, logs |-> acc.logs \o x.logs]
         IN IF x.brk THEN nxt ELSE ReplayOver(row, nxt, cs, k + 1)

\* One call of apply_state_machine: the stored row and the events table.
Evaluate(row, cs) ==
    LET r == ReplayOver(row, [l |-> InitLocals(row), logs |-> <<>>], cs, 1)
    IN [row |-> ApplyUpdate(row, row, r.l), events |-> LogAll(<<>>, r.logs)]

InitMirror == InitWith(MirrorBuyInputs) /\ AuxIdle

AddMirrorCandle ==
    /\ Len(candles) < MaxCandles
    /\ \E c \in [high : MirrorPrices, low : MirrorPrices] :
         /\ c.low <= c.high
         /\ Reflect(c.high, sig.entry) >= 1
         /\ candles' = Append(candles, c)
    /\ lastPatch' = Idle
    /\ UNCHANGED <<sig, events, evalVars, lastWin, created, syncVars,
                   table, tick, sender, cleanup,
                   otherVars>>

EvaluateBoth ==
    /\ lastPatch = Idle
    /\ lastPatch' = [buy |-> Evaluate(sig, candles),
                     sell |-> Evaluate(Mirror(sig),
                                       ReflectCandles(candles, sig.entry))]
    /\ UNCHANGED <<sig, candles, events, evalVars, lastWin, created, syncVars,
                   table, tick, sender, cleanup,
                   otherVars>>

NextMirror == AddMirrorCandle \/ EvaluateBoth

SpecMirror == InitMirror /\ [][NextMirror]_vars

-----------------------------------------------------------------------------
(* log_event called with any type, one call after another *)

\* The types log_event is called with: the milestones and `error`.
LoggedTypes == UNIQUE_EVENTS \cup {"error"}

\* One call of log_event for the signal. Calls with a type that is always
\* inserted are bounded by MaxErrors rows of such types.
LogEventCall ==
    /\ \E type \in LoggedTypes :
          /\ type \in UNIQUE_EVENTS \/ ErrorsLogged < MaxErrors
          /\ events' = log_event(events, Ev(type, sig.entry, NowTs))
    /\ UNCHANGED <<sig, candles, evalVars, lastWin, created, syncVars, auxVars>>

NextLog == LogEventCall

SpecLog == Init /\ [][NextLog]_vars

-----------------------------------------------------------------------------
(* tick_once over a signals table with several rows *)

\* A row of the table as the tick reads it: id, status, and whether
\* entered_at is set. The table is kept newest first (created_at desc).
\* Every row has stop_loss_initial, so that ids_to_fix is empty.
NewRow(id) == [id |-> id, status |-> "open", entered |-> FALSE]

Take(rows, n) == SubSeq(rows, 1, IF Len(rows) <= n THEN Len(rows) ELSE n)

Ids(rows) == {rows[k].id : k \in DOMAIN rows}

\* First query: status in (open, tp1, tp2), newest first, limit.
Query1(tab, limit) ==
    Take(SelectSeq(tab, LAMBDA x : x.status \in ActiveStatuses), limit)

\* Second query: status = open and entered_at is null, newest first, limit.
Query2(tab, limit) ==
    Take(SelectSeq(tab, LAMBDA x : x.status = "open" /\ ~x.entered), limit)

\* fetch_open_signals that appends every row of the second query.
fetch_open_signals_NoDedup(q1, q2, limit) == Take(q1 \o q2, limit)

\* out = q1 + the rows of q2 whose id q1 does not hold, cut to limit.
fetch_open_signals(q1, q2, limit) ==
    Take(q1 \o SelectSeq(q2, LAMBDA x : x.id \notin Ids(q1)), limit)

\* The statuses an evaluation can store for a row it read with status st.
Successors(st) ==
    CASE st = "open" -> {"open", "tp1", "tp2", "close"}
      [] st = "tp1" -> {"tp1", "tp2", "close"}
      [] OTHER -> {"tp2", "close"}

\* update ... eq("id", id): the row with the id gets the status.
TableUpdate(tab, id, st, ent) ==
    [k \in DOMAIN tab |->
        IF tab[k].id = id
        THEN [tab[k] EXCEPT !.status = st, !.entered = ent]
        ELSE tab[k]]

TickIdle ==
    [pc |-> "idle", q1 |-> <<>>, batch |-> <<>>, k |-> 0, evaluated |-> <<>>,
     errors |-> 0]

InitTick ==
    /\ InitWith({NewSignal("BUY", 3, 1, 4, 5, 6)})
    /\ table = <<>>
    /\ tick = TickIdle
    /\ sender = Idle
    /\ cleanup = Idle
    /\ lastPatch = Idle
    /\ loggers = Idle
    /\ oco = Idle
    /\ protective = Idle

\* A new signal is inserted: open, not entered, the newest row.
InsertSignal ==
    /\ Len(table) < MaxSignals
    /\ table' = <<NewRow(Len(table) + 1)>> \o table
    /\ UNCHANGED <<sig, candles, events, evalVars, lastWin, created, syncVars,
                   tick, sender, cleanup, lastPatch,
                   otherVars>>

\* The sender marks a row entered; the closure sync closes an active row.
OtherWriter ==
    /\ \E k \in DOMAIN table :
          \/ /\ table[k].status = "open"
             /\ ~table[k].entered
             /\ table' = TableUpdate(table, table[k].id, "open", TRUE)
          \/ /\ table[k].status \in ActiveStatuses
             /\ table' = TableUpdate(table, table[k].id, "close", table[k].entered)
    /\ UNCHANGED <<sig, candles, events, evalVars, lastWin, created, syncVars,
                   tick, sender, cleanup, lastPatch,
                   otherVars>>

TickQuery1 ==
    /\ tick.pc = "idle"
    /\ tick' = [tick EXCEPT !.pc = "q2", !.q1 = Query1(table, BATCH_SIZE)]
    /\ UNCHANGED <<sig, candles, events, evalVars, lastWin, created, syncVars,
                   table, sender, cleanup, lastPatch,
                   otherVars>>

\* The second query and the merge; an empty result ends the tick.
TickQuery2 ==
    /\ tick.pc = "q2"
    /\ LET out == fetch_open_signals(tick.q1, Query2(table, BATCH_SIZE), BATCH_SIZE)
       IN tick' = [tick EXCEPT !.pc = IF out = <<>> THEN "done" ELSE "loop",
                               !.q1 = <<>>, !.batch = out, !.k = 1]
    /\ UNCHANGED <<sig, candles, events, evalVars, lastWin, created, syncVars,
                   table, sender, cleanup, lastPatch,
                   otherVars>>

\* One iteration of `for s in signals`: apply_state_machine returns, having
\* stored a status for the row, or raises; the handler's insert of the error
\* event returns or raises, and an exception of the insert leaves tick_once.
TickEvaluate ==
    /\ tick.pc = "loop"
    /\ LET row == tick.batch[tick.k]
           next == IF tick.k = Len(tick.batch) THEN "done" ELSE "loop"
           seen == Append(tick.evaluated, row.id)
       IN \/ \E st \in Successors(row.status), ent \in {row.entered, TRUE} :
                /\ table' = TableUpdate(table, row.id, st, ent)
                /\ tick' = [tick EXCEPT !.pc = next, !.k = @ + 1, !.evaluated = seen]
          \/ /\ tick' = [tick EXCEPT !.pc = next, !.k = @ + 1, !.evaluated = seen,
                                      !.errors = @ + 1]
             /\ UNCHANGED table
          \/ /\ tick' = [tick EXCEPT !.pc = "aborted", !.evaluated = seen]
             /\ UNCHANGED table
    /\ UNCHANGED <<sig, candles, events, evalVars, lastWin, created, syncVars,
                   sender, cleanup, lastPatch,
                   otherVars>>

\* main: the tick returned or its exception was caught; the next tick starts
\* after the sleep.
TickEnd ==
    /\ tick.pc \in {"done", "aborted"}
    /\ tick' = TickIdle
    /\ UNCHANGED <<sig, candles, events, evalVars, lastWin, created, syncVars,
                   table, sender, cleanup, lastPatch,
                   otherVars>>

NextTick ==
    \/ InsertSignal
    \/ OtherWriter
    \/ TickQuery1
    \/ TickQuery2
    \/ TickEvaluate
    \/ TickEnd

SpecTick == InitTick /\ [][NextTick]_vars

-----------------------------------------------------------------------------
(* sync_futures_closures.main, one signal of one iteration, with what Binance
   answers *)

\* Bodies of /fapi/v2/positionRisk: a body that is no list, an empty list, and
\* lists of entries with their positionAmt.
PositionResponses ==
    {[is_list |-> FALSE, amts |-> <<>>],
     [is_list |-> TRUE, amts |-> <<>>],
     [is_list |-> TRUE, amts |-> <<0>>],
     [is_list |-> TRUE, amts |-> <<1>>],
     [is_list |-> TRUE, amts |-> <<0, -1>>]}

\* User trades found since created_at.
TradeCounts == {0, 1}

is_position_open(resp) ==
    IF ~resp.is_list THEN FALSE
    ELSE \E k \in DOMAIN resp.amts : resp.amts[k] # 0

\* The body of the per-signal try up to update_signal_closed: skip when the
\* position is open, skip when no trade was found, else compute exit_info.
SyncCheck ==
    /\ syncPc = "idle"
    /\ sig.status = "open"
    /\ sig.futures_entry_sent
    /\ \E resp \in PositionResponses, trades \in TradeCounts :
          /\ syncSeen' = [resp |-> resp, trades |-> trades]
          /\ IF is_position_open(resp) \/ trades = 0
             THEN UNCHANGED <<syncPc, syncInfo>>
             ELSE /\ \E exit_price \in ClosePrices(sig), filled \in FilledOrders :
                        syncInfo' = ExitInfo(sig, exit_price, NowTs, filled)
                  /\ syncPc' = "write"
    /\ UNCHANGED <<sig, candles, events, evalVars, lastWin, created, auxVars>>

NextSync == AddNarrowCandle \/ Evaluator \/ SendEntry \/ SyncCheck \/ SyncWrite

SpecSync == Init /\ [][NextSync]_vars

-----------------------------------------------------------------------------
(* update_signal_closed on any exit_info *)

\* Raw exit_type and exit_level values: the ones main produces, their
\* upper-case spellings, None ("null") and a text that is no level.
RawExitTypes == {"manual", "MANUAL", "sl", "SL", "tp", "null"}
RawExitLevels ==
    {"manual", "MANUAL", "sl", "SL", "tp1", "tp2", "TP2", "tp3", "be", "BE",
     "null", "liquidation"}

ExitInfos ==
    [exit_time : {NowTs}, profit : {-1, 0, 1}, r_multiple : {None, Some(0)},
     exit_type : RawExitTypes, exit_level : RawExitLevels]

\* A caller hands an exit_info to update_signal_closed; syncSeen keeps it.
PassExitInfo ==
    /\ syncPc = "idle"
    /\ \E info \in ExitInfos :
          /\ syncInfo' = info
          /\ syncSeen' = info
    /\ syncPc' = "write"
    /\ UNCHANGED <<sig, candles, events, evalVars, lastWin, created, auxVars>>

NextNorm == PassExitInfo \/ SyncWrite

SpecNorm == Init /\ [][NextNorm]_vars

-----------------------------------------------------------------------------
(* send_futures_entry_from_signal.main, one iteration in steps *)

\* pc: where the iteration is; orders: MARKET entry orders sent so far; last:
\* how the last iteration that sent an order ended.
SenderIdle == [pc |-> "idle", orders |-> 0, last |-> "none"]

InitSender ==
    /\ InitWith(SignalInputs)
    /\ table = <<>>
    /\ tick = Idle
    /\ sender = SenderIdle
    /\ cleanup = Idle
    /\ lastPatch = Idle
    /\ loggers = Idle
    /\ oco = Idle
    /\ protective = Idle

\* fetch_latest_open_signal returns the signal (status open,
\* futures_entry_sent false) and the MARKET entry order is sent.
SenderOrder ==
    /\ sender.pc = "idle"
    /\ sig.status = "open"
    /\ ~sig.futures_entry_sent
    /\ sender.orders < MaxOrders
    /\ sender' = [sender EXCEPT !.pc = "sent", !.orders = @ + 1]
    /\ UNCHANGED <<sig, candles, events, evalVars, lastWin, created, syncVars,
                   table, tick, cleanup, lastPatch,
                   otherVars>>

\* The order is FILLED, the SL and TP orders are placed, and the signal is
\* marked futures_entry_sent with entered_at = utcnow.
SenderFilled ==
    /\ sender.pc = "sent"
    /\ sig' = MarkEntrySent(sig, NowTs)
    /\ sender' = [sender EXCEPT !.pc = "idle", !.last = "marked"]
    /\ UNCHANGED <<candles, events, evalVars, lastWin, created, syncVars,
                   table, tick, cleanup, lastPatch,
                   otherVars>>

\* The orderId is not an integer, or wait_for_fill returns None (timeout, or
\* the order CANCELED, REJECTED or EXPIRED): `continue`, the signal is not
\* marked.
SenderNoFill ==
    /\ sender.pc = "sent"
    /\ sender' = [sender EXCEPT !.pc = "idle", !.last = "not filled"]
    /\ UNCHANGED <<sig, candles, events, evalVars, lastWin, created, syncVars,
                   table, tick, cleanup, lastPatch,
                   otherVars>>

\* wait_for_fill, place_sl_and_tp_orders or the update raises: the loop's
\* except prints the error and sleeps, the signal is not marked.
SenderRaises ==
    /\ sender.pc = "sent"
    /\ sender' = [sender EXCEPT !.pc = "idle", !.last = "raised"]
    /\ UNCHANGED <<sig, candles, events, evalVars, lastWin, created, syncVars,
                   table, tick, cleanup, lastPatch,
                   otherVars>>

NextSender ==
    \/ AddCandle
    \/ Evaluator
    \/ SenderOrder
    \/ SenderFilled
    \/ SenderNoFill
    \/ SenderRaises

SpecSender == InitSender /\ [][NextSender]_vars

-----------------------------------------------------------------------------
(* cleanup_stale_sl_tp_orders *)

\* Futures symbols; "null" is an order without a symbol.
Symbols == {"BTCUSDT", "ETHUSDT"}

candidate_types == {"STOP_MARKET", "TAKE_PROFIT_MARKET", "STOP", "TAKE_PROFIT"}

\* Order types of the exchange: the candidates and one that is none.
OrderTypes == candidate_types \cup {"LIMIT"}

OpenOrders ==
    [symbol : Symbols \cup {"null"}, reduceOnly : BOOLEAN, type : OrderTypes]

\* positionRisk entries: the positionAmt of each symbol.
Positions == [Symbols -> {-1, 0, 1}]

\* The symbols with positionAmt # 0 in a positionRisk answer.
get_active_futures_symbols(snap) == {sym \in Symbols : snap[sym] # 0}

\* The loop's tests with the reduceOnly test left out.
Cancels_IgnoresReduceOnly(o, active) ==
    /\ o.symbol # "null"
    /\ o.symbol \notin active
    /\ o.type \in candidate_types

\* The loop's tests: the order is cancelled when none of them `continue`s.
Cancels(o, active) ==
    /\ o.symbol # "null"
    /\ o.symbol \notin active
    /\ o.reduceOnly
    /\ o.type \in candidate_types

\* pos: the positions on the exchange; orders: the answer of openOrders;
\* open: the orders of that answer which are still open; snap: the
\* positionRisk answer the cleanup took (none before it is taken).
InitCleanup ==
    /\ InitWith({NewSignal("BUY", 3, 1, 4, 5, 6)})
    /\ table = <<>>
    /\ tick = Idle
    /\ sender = Idle
    /\ lastPatch = Idle
    /\ loggers = Idle
    /\ oco = Idle
    /\ protective = Idle
    /\ \E n \in 0..MaxOpenOrders :
          \E orders \in [1..n -> OpenOrders], pos \in Positions :
              cleanup = [pc |-> "idle", pos |-> pos, orders |-> orders,
                         open |-> 1..n, snap |-> [sym \in Symbols |-> 0],
                         k |-> 0]

\* get_active_futures_symbols and the openOrders request.
CleanupSnapshot ==
    /\ cleanup.pc = "idle"
    /\ cleanup' = [cleanup EXCEPT !.pc = IF cleanup.orders = <<>> THEN "done"
                                         ELSE "loop",
                                  !.snap = cleanup.pos, !.k = 1]
    /\ UNCHANGED <<sig, candles, events, evalVars, lastWin, created, syncVars,
                   table, tick, sender, lastPatch,
                   otherVars>>

\* One iteration of `for o in open_orders`: the order is skipped, or the
\* DELETE is sent, which cancels the order or fails.
CleanupOrder ==
    /\ cleanup.pc = "loop"
    /\ LET o == cleanup.orders[cleanup.k]
           next == IF cleanup.k = Len(cleanup.orders) THEN "done" ELSE "loop"
           active == get_active_futures_symbols(cleanup.snap)
       IN IF Cancels(o, active)
          THEN \/ cleanup' = [cleanup EXCEPT !.pc = next, !.k = @ + 1,
                                            !.open = @ \ {cleanup.k}]
               \/ cleanup' = [cleanup EXCEPT !.pc = next, !.k = @ + 1]
          ELSE cleanup' = [cleanup EXCEPT !.pc = next, !.k = @ + 1]
    /\ UNCHANGED <<sig, candles, events, evalVars, lastWin, created, syncVars,
                   table, tick, sender, lastPatch,
                   otherVars>>

NextCleanup == CleanupSnapshot \/ CleanupOrder

SpecCleanup == InitCleanup /\ [][NextCleanup]_vars

\* ---------------------------------------------------------------------------
\* log_event called by several evaluator processes at once.  The existence
\* check and the insert are two requests to the database.
\* ---------------------------------------------------------------------------

LogProcs == 1..MaxLoggers

LoggerIdle == [pc |-> "idle", event |-> "null"]

InitLoggers ==
    /\ InitWith(SignalInputs)
    /\ table = <<>>
    /\ tick = Idle
    /\ sender = Idle
    /\ cleanup = Idle
    /\ lastPatch = Idle
    /\ loggers = [p \in LogProcs |-> LoggerIdle]
    /\ oco = Idle
    /\ protective = Idle

\* The call up to the answer of the select: `if exists: return`, else on to
\* the insert.  A type outside UNIQUE_EVENTS goes to the insert unchecked.
LogCheck(p) ==
    /\ loggers[p].pc = "idle"
    /\ Len(events) < MaxEventRows
    /\ \E type \in LoggedTypes :
          /\ type \in UNIQUE_EVENTS \/ ErrorsLogged < MaxErrors
          /\ IF type \in UNIQUE_EVENTS
                /\ \E k \in DOMAIN events : events[k].event = type
             THEN UNCHANGED loggers
             ELSE loggers' = [loggers EXCEPT ![p] = [pc |-> "insert",
                                                     event |-> type]]
    /\ UNCHANGED <<sig, candles, events, evalVars, lastWin, created, syncVars,
                   table, tick, sender, cleanup, lastPatch, oco, protective>>

\* supabase.table(EVENTS_TABLE).insert({...}).execute()
LogInsert(p) ==
    /\ loggers[p].pc = "insert"
    /\ events' = Append(events, Ev(loggers[p].event, sig.entry, NowTs))
    /\ loggers' = [loggers EXCEPT ![p] = LoggerIdle]
    /\ UNCHANGED <<sig, candles, evalVars, lastWin, created, syncVars,
                   table, tick, sender, cleanup, lastPatch, oco, protective>>

NextLoggers == \E p \in LogProcs : LogCheck(p) \/ LogInsert(p)

SpecLoggers == InitLoggers /\ [][NextLoggers]_vars

\* ---------------------------------------------------------------------------
\* The evaluator with event inserts that may fail.  log_event's `except: pass`
\* drops a failed insert and returns to apply_state_machine.
\* ---------------------------------------------------------------------------

\* The log_event calls es[k..] in turn, of which those in keep succeed.
RECURSIVE LogSome(_, _, _, _)
LogSome(evs, es, keep, k) ==
    IF k > Len(es) THEN evs
    ELSE LogSome(IF k \in keep THEN log_event(evs, es[k]) ELSE evs,
                 es, keep, k + 1)

\* One iteration of the loop, each of its inserts succeeding or not.
LoopStepLossy ==
    /\ pc = "loop"
    /\ LET x == ProcessCandle(s, loc, candles[i], i) IN
        /\ loc' = x.l
        /\ \E keep \in SUBSET DOMAIN x.logs :
              events' = LogSome(events, x.logs, keep, 1)
        /\ IF x.brk \/ i = win
           THEN pc' = "finish" /\ i' = i
           ELSE pc' = "loop" /\ i' = i + 1
    /\ UNCHANGED <<sig, candles, s, win, lastWin, created, syncVars, auxVars>>

NextLossy == AddCandle \/ Fetch \/ FixInitial \/ Start \/ LoopStepLossy \/ Finish

SpecLossy == Init /\ [][NextLossy]_vars

\* ---------------------------------------------------------------------------
\* The loop of send_futures_entry_from_signal over a table of several
\* signals, one action per iteration of `while True`.
\* ---------------------------------------------------------------------------

\* Rows as inserted: direction, entry and stop_loss.  The third has its stop
\* on the wrong side of the entry.
PendingInputs ==
    { [direction |-> "BUY", entry |-> 3, stop_loss |-> 1],
      [direction |-> "SELL", entry |-> 4, stop_loss |-> 6],
      [direction |-> "BUY", entry |-> 3, stop_loss |-> 4] }

PendingRow(id, in) ==
    [id |-> id, direction |-> in.direction, entry |-> in.entry,
     stop_loss |-> in.stop_loss, status |-> "open",
     futures_entry_sent |-> FALSE]

\* .eq("status", "open").eq("futures_entry_sent", False)
PendingAt(k) == table[k].status = "open" /\ ~table[k].futures_entry_sent

\* fetch_latest_open_signal: the newest pending row (limit 1), 0 for none.
fetch_latest_open_signal ==
    IF \E k \in DOMAIN table : PendingAt(k)
    THEN CHOOSE k \in DOMAIN table :
            /\ PendingAt(k)
            /\ \A j \in DOMAIN table : PendingAt(j) => k <= j
    ELSE 0

\* calculate_position_size: risk_per_unit of the row.
risk_per_unit(row) ==
    IF row.direction = "BUY" THEN row.entry - row.stop_loss
    ELSE row.stop_loss - row.entry

\* beat tells one iteration of the loop from the next.
PendingSenderIdle == [orders |-> {}, last |-> "none", beat |-> FALSE]

InitPending ==
    /\ InitWith({NewSignal("BUY", 3, 1, 4, 5, 6)})
    /\ table = <<>>
    /\ tick = Idle
    /\ sender = PendingSenderIdle
    /\ cleanup = Idle
    /\ lastPatch = Idle
    /\ loggers = Idle
    /\ oco = Idle
    /\ protective = Idle

\* A signal is inserted; the table is kept newest first.
InsertPending ==
    /\ Len(table) < MaxSignals
    /\ \E in \in PendingInputs :
          table' = << PendingRow(Len(table) + 1, in) >> \o table
    /\ UNCHANGED <<sig, candles, events, evalVars, lastWin, created, syncVars,
                   tick, sender, cleanup, lastPatch, otherVars>>

\* An iteration in which the exchange reports the fill: no signal is a
\* sleep; a ValueError of calculate_position_size is caught by the loop and
\* leaves the row as it is; otherwise the MARKET order is sent and the row is
\* marked.
SenderIteration ==
    /\ LET k == fetch_latest_open_signal IN
       IF k = 0
       THEN /\ sender' = [sender EXCEPT !.last = "none", !.beat = ~@]
            /\ table' = table
       ELSE IF risk_per_unit(table[k]) <= 0
       THEN /\ sender' = [sender EXCEPT !.last = "error", !.beat = ~@]
            /\ table' = table
       ELSE /\ sender' = [orders |-> sender.orders \cup {table[k].id},
                          last |-> "sent", beat |-> ~sender.beat]
            /\ table' = [table EXCEPT ![k].futures_entry_sent = TRUE]
    /\ UNCHANGED <<sig, candles, events, evalVars, lastWin, created, syncVars,
                   tick, cleanup, lastPatch, otherVars>>

\* An iteration in which wait_for_fill times out: the order was sent and the
\* row is left pending.
SenderIterationNoFill ==
    /\ LET k == fetch_latest_open_signal IN
        /\ k # 0
        /\ risk_per_unit(table[k]) > 0
        /\ sender' = [orders |-> sender.orders \cup {table[k].id},
                      last |-> "nofill", beat |-> ~sender.beat]
    /\ UNCHANGED <<sig, candles, events, evalVars, lastWin, created, syncVars,
                   table, tick, cleanup, lastPatch, otherVars>>

NextPending == InsertPending \/ SenderIteration \/ SenderIterationNoFill

SpecPending == InitPending /\ [][NextPending]_vars

\* The loop keeps iterating and the exchange keeps answering: an iteration
\* with a reported fill is taken whenever it stays possible.
SpecPendingFair == SpecPending /\ WF_vars(SenderIteration)

\* ---------------------------------------------------------------------------
\* create_tp1_sl_oco_for_filled_entries run again and again for one signal,
\* next to sync_entry_orders_from_binance and the entry order on Binance.
\* ---------------------------------------------------------------------------

\* GET /api/v3/order for the entry order: status and executedQty.
EntryOrders ==
    { [status |-> "NEW", executedQty |-> 0],
      [status |-> "CANCELED", executedQty |-> 0] }
    \cup { [status |-> "PARTIALLY_FILLED", executedQty |-> q] :
             q \in 1..(MaxQty - 1) }
    \cup { [status |-> "FILLED", executedQty |-> MaxQty] }

\* The exchange_sync_status sync_entry_orders_from_binance derives.
new_sync_status(status) ==
    IF status \in {"NEW", "PARTIALLY_FILLED"} THEN "entry_placed"
    ELSE IF status = "FILLED" THEN "entry_filled"
    ELSE "entry_cancelled"

InitOco ==
    /\ InitWith(SignalInputs)
    /\ table = <<>>
    /\ tick = Idle
    /\ sender = Idle
    /\ cleanup = Idle
    /\ lastPatch = Idle
    /\ loggers = Idle
    /\ protective = Idle
    /\ \E sync \in {"entry_placed", "entry_filled"}, o \in EntryOrders :
          oco = [pc |-> "idle",
                 exchange_sync_status |-> sync, order_ids |-> FALSE,
                 order |-> o, placed |-> 0, placedFor |-> {}, last |-> "none"]

OcoUnchanged ==
    UNCHANGED <<sig, candles, events, evalVars, lastWin, created, syncVars,
                table, tick, sender, cleanup, lastPatch, loggers, protective>>

\* The entry order on Binance moves on.
OrderProgress ==
    /\ \E o \in EntryOrders :
          /\ \/ oco.order.status = "NEW"
             \/ /\ oco.order.status = "PARTIALLY_FILLED"
                /\ o.executedQty > oco.order.executedQty
          /\ o.status # "NEW"
          /\ oco' = [oco EXCEPT !.order = o]
    /\ OcoUnchanged

\* sync_entry_orders_from_binance for the row.
EntrySync ==
    /\ oco.exchange_sync_status = "entry_placed"
    /\ oco' = [oco EXCEPT !.exchange_sync_status =
                              new_sync_status(oco.order.status),
                          !.last = "sync"]
    /\ OcoUnchanged

\* fetch_filled_signals_without_tp1_sl returns the row.
OcoFetched == oco.exchange_sync_status = "entry_filled" /\ ~oco.order_ids

\* The start of a run: the rows are fetched, and none is a return.
OcoFetch ==
    /\ oco.pc = "idle"
    /\ oco' = [oco EXCEPT !.pc = IF OcoFetched THEN "fetched" ELSE "idle",
                          !.last = IF OcoFetched THEN "fetched" ELSE "empty"]
    /\ OcoUnchanged

\* `if status != "FILLED" or executed_qty <= 0: continue`
EntryFilled == oco.order.status = "FILLED" /\ oco.order.executedQty > 0

\* The side that closes the position.
close_side == IF sig.direction = "BUY" THEN "SELL" ELSE "BUY"

\* The OCO is accepted by Binance.
Accepted(outcome) ==
    [oco EXCEPT !.placed = oco.placed + 1,
                !.placedFor = oco.placedFor \cup
                    {[exchange_sync_status |-> oco.exchange_sync_status,
                      order |-> oco.order, side |-> close_side,
                      quantity |-> oco.order.executedQty]},
                !.pc = "idle",
                !.last = outcome]

\* A run that places nothing: get_order raises, the entry is not filled, or
\* the OCO request is refused.
OcoRunSkips ==
    /\ oco.pc = "fetched"
    /\ \E outcome \in {"get_order_error", "oco_error"} \cup
                      (IF EntryFilled THEN {} ELSE {"not_filled"}) :
          oco' = [oco EXCEPT !.pc = "idle", !.last = outcome]
    /\ OcoUnchanged

\* A run that places the OCO and stores its order ids.
OcoRunPlaces ==
    /\ oco.pc = "fetched"
    /\ EntryFilled
    /\ oco.placed < MaxOcos
    /\ oco' = [Accepted("done") EXCEPT !.order_ids = TRUE,
                                       !.exchange_sync_status = "tp1_sl_placed"]
    /\ OcoUnchanged

\* A run in which parse_oco_leg_ids raises after the OCO was accepted.
OcoRunParseFails ==
    /\ oco.pc = "fetched"
    /\ EntryFilled
    /\ oco.placed < MaxOcos
    /\ oco' = Accepted("parse_error")
    /\ OcoUnchanged

\* A run in which update_tp1_sl_info raises after the OCO was accepted.
OcoRunUpdateFails ==
    /\ oco.pc = "fetched"
    /\ EntryFilled
    /\ oco.placed < MaxOcos
    /\ oco' = Accepted("update_error")
    /\ OcoUnchanged

NextOco ==
    \/ OrderProgress
    \/ OcoFetch
    \/ EntrySync
    \/ OcoRunSkips
    \/ OcoRunPlaces
    \/ OcoRunParseFails
    \/ OcoRunUpdateFails

SpecOco == InitOco /\ [][NextOco]_vars

\* ---------------------------------------------------------------------------
\* place_sl_and_tp_orders as a function of its arguments.  Quantities are
\* whole numbers of the smallest lot; fractions are hundredths.
\* ---------------------------------------------------------------------------

\* The digits a Decimal quotient keeps, as the denominator of 1/sum_f.
DecimalUnit == 1000

\* a / b rounded to the nearest whole number, as a Decimal division rounds.
RoundDiv(a, b) == (2 * a + b) \div (2 * b)

\* (qty // step_size) * step_size
quantize_to_step(qty, step_size) == (qty \div step_size) * step_size

\* f1, f2, f3 after max(f, 0) and the normalization, in units of
\* 1 / (WHOLE * DecimalUnit).
Fractions(fs) ==
    LET f == [k \in 1..3 |-> Max(fs[k], 0)]
        sum_f == f[1] + f[2] + f[3]
    IN IF sum_f > WHOLE
       THEN LET factor == RoundDiv(WHOLE * DecimalUnit, sum_f)
            IN [k \in 1..3 |-> f[k] * factor]
       ELSE [k \in 1..3 |-> f[k] * DecimalUnit]

\* make_tp that sends whatever the quantization gives.
make_tp_NoMinQty(tp_price, frac, remaining, total_qty, step_size, min_qty) ==
    IF ~IsSet(tp_price) \/ Val(tp_price) <= 0 \/ frac <= 0 \/ remaining <= 0
    THEN [qty |-> 0, remaining |-> remaining]
    ELSE LET q0 == quantize_to_step((total_qty * frac) \div (WHOLE * DecimalUnit),
                                    step_size)
             tp_qty == IF q0 > remaining
                       THEN quantize_to_step(remaining, step_size) ELSE q0
         IN [qty |-> tp_qty, remaining |-> remaining - tp_qty]

\* make_tp: the quantity of the TAKE_PROFIT_MARKET order it sends (0 for
\* none) and the remaining quantity it returns.
make_tp(tp_price, frac, remaining, total_qty, step_size, min_qty) ==
    IF ~IsSet(tp_price) \/ Val(tp_price) <= 0 \/ frac <= 0 \/ remaining <= 0
    THEN [qty |-> 0, remaining |-> remaining]
    ELSE LET q0 == quantize_to_step((total_qty * frac) \div (WHOLE * DecimalUnit),
                                    step_size)
             tp_qty == IF q0 > remaining
                       THEN quantize_to_step(remaining, step_size) ELSE q0
         IN IF tp_qty < min_qty
            THEN [qty |-> 0, remaining |-> remaining]
            ELSE [qty |-> tp_qty, remaining |-> remaining - tp_qty]

\* The quantities of the orders sent, or the ValueError for a total below
\* min_qty.
place_sl_and_tp_orders(a) ==
    LET total_qty == quantize_to_step(a.qty, a.step_size) IN
    IF total_qty < a.min_qty
    THEN [raised |-> TRUE, sl |-> 0, tps |-> <<0, 0, 0>>]
    ELSE LET f == Fractions(a.fractions)
             t1 == make_tp(a.tps[1], f[1], total_qty, total_qty,
                           a.step_size, a.min_qty)
             t2 == make_tp(a.tps[2], f[2], t1.remaining, total_qty,
                           a.step_size, a.min_qty)
             t3 == make_tp(a.tps[3], f[3], t2.remaining, total_qty,
                           a.step_size, a.min_qty)
         IN [raised |-> FALSE, sl |-> total_qty,
             tps |-> <<t1.qty, t2.qty, t3.qty>>]

FractionInputs == {0 - 10, 0, 33, 34, 50, 100}

TargetInputs == {None, Some(0), Some(4)}

ProtectiveInputs ==
    [qty : 1..MaxLots, step_size : 1..MaxStep, min_qty : 1..MaxStep,
     fractions : [1..3 -> FractionInputs], tps : [1..3 -> TargetInputs]]

InitProtective ==
    /\ InitWith({NewSignal("BUY", 3, 1, 4, 5, 6)})
    /\ table = <<>>
    /\ tick = Idle
    /\ sender = Idle
    /\ cleanup = Idle
    /\ lastPatch = Idle
    /\ loggers = Idle
    /\ oco = Idle
    /\ \E a \in ProtectiveInputs : protective = [args |-> a, called |-> FALSE]

PlaceOrders ==
    /\ ~protective.called
    /\ protective' = [args |-> protective.args, called |-> TRUE,
                      result |-> place_sl_and_tp_orders(protective.args)]
    /\ UNCHANGED <<sig, candles, events, evalVars, lastWin, created, syncVars,
                   table, tick, sender, cleanup, lastPatch, loggers, oco>>

NextProtective == PlaceOrders

SpecProtective == InitProtective /\ [][NextProtective]_vars

-----------------------------------------------------------------------------
(* Properties *)

\* The statuses that end the lifecycle.
TerminalStatuses == {"tp3", "sl", "close"}

\* The candle the loop is at is tested for stop and targets: the signal has
\* entered before it or enters on it.
CandleTested ==
    /\ pc = "loop"
    /\ (IsSet(loc.entered_at) \/ ContainsEntry(s, candles[i]))

\* The stop condition of the candle the loop is at, against the effective stop
\* of the status held when the candle starts.
StopTouched ==
    LET stop == CASE loc.status = "tp1" -> s.entry
                  [] loc.status = "tp2" -> s.tp1
                  [] OTHER -> s.stop_loss
    IN IF s.direction = "BUY" THEN candles[i].low <= stop
       ELSE candles[i].high >= stop

TargetTouched(tp) ==
    IF s.direction = "BUY" THEN candles[i].high >= tp ELSE candles[i].low <= tp

AnyTargetTouched == \E tp \in {s.tp1, s.tp2, s.tp3} : TargetTouched(tp)

\* The events inserted by the step.
NewEvents == {events'[k].event : k \in (Len(events) + 1)..Len(events')}

\* C1: a second evaluation of a persisted signal over the same candle window
\* changes no stored field of the signal and records no new event.
C1_IdempotentWithPersistence ==
    [][(pc \in {"loop", "finish"} /\ lastWin = win)
          => (sig' = sig /\ events' = events)]_vars

\* C2: when the stop condition and a target condition both hold on a tested
\* candle, the candle ends in the stop, breakeven or trailing exit: the loop
\* stops, no status tp1, tp2 or tp3 is taken and no hit_tpN event is recorded.
C2_StopHasPriority ==
    [][(CandleTested /\ StopTouched /\ AnyTargetTouched)
          => /\ pc' = "finish"
             /\ loc'.status = "close"
             /\ loc'.exit_level \in {"sl", "be", "sl_trailing"}
             /\ loc'.exit_at = Some(i)
             /\ NewEvents \cap {"hit_tp1", "hit_tp2", "hit_tp3"} = {}]_vars

C2_Witness ==
    /\ pc = "finish"
    /\ loc.exit_at = Some(i)
    /\ loc.exit_level \in {"sl", "be", "sl_trailing"}
    /\ \E tp \in {s.tp1, s.tp2, s.tp3} : HitTp(s.direction, candles[i], tp)

\* C3, as claimed: a stop hit while the status is open ends the evaluation
\* with status sl and exit_level sl, and that is what is stored.
C3_HardStopStatusSl ==
    [][/\ (CandleTested /\ loc.status = "open" /\ StopTouched)
            => (pc' = "finish" /\ loc'.status = "sl" /\ loc'.exit_level = "sl")
       /\ (pc = "finish" /\ loc.exit_level = "sl")
            => (sig'.status = "sl" /\ sig'.exit_level = "sl")]_vars

\* C3, amended: a stop hit while the status is open ends the evaluation with
\* status close and exit_level sl, and that is what is stored.
C3_HardStopStatusClose ==
    [][/\ (CandleTested /\ loc.status = "open" /\ StopTouched)
            => (pc' = "finish" /\ loc'.status = "close" /\ loc'.exit_level = "sl")
       /\ (pc = "finish" /\ loc.exit_level = "sl")
            => (sig'.status = "close" /\ sig'.exit_level = "sl")]_vars

C3_Witness ==
    /\ pc = "idle"
    /\ sig.status = "close"
    /\ sig.exit_level = "sl"
    /\ IsSet(sig.entered_at)
    /\ sig.partial_realized = 0

\* C4: after a stop hit while the status is open, the r_multiple stored at
\* finalization is r_at(stop_loss).
C4_HardStopRMultiple ==
    [][(pc = "finish" /\ loc.exit_level = "sl")
          => sig'.r_multiple =
               Some(r_at(s.stop_loss, s.entry, StopInitial(s), s.direction) * WHOLE)]_vars

\* C5: a finalized signal is stored with partial_realized = 1.
C5_RealizedTotalsOne ==
    sig.finalized => sig.partial_realized = WHOLE

\* C6: an evaluation of a signal whose status is terminal changes no stored
\* field of the signal and records no event.
C6_TerminalNoOp ==
    [][(pc \in {"start", "loop", "finish"} /\ s.status \in TerminalStatuses)
          => (sig' = sig /\ events' = events)]_vars

\* The candles that contain entry, and the first of them.
EntryCandles == {k \in 1..Len(candles) : ContainsEntry(sig, candles[k])}
FirstEntryCandle == CHOOSE k \in EntryCandles : \A j \in EntryCandles : k <= j

\* C7: entered_at is the first candle whose range contains entry, and no
\* earlier candle triggers a transition or contributes to mfe and mae.
C7_EntryDetection ==
    /\ IsSet(sig.entered_at)
         => (EntryCandles # {} /\ Val(sig.entered_at) = FirstEntryCandle)
    /\ \A k \in 1..Len(events) :
          EntryCandles # {} /\ events[k].ts >= FirstEntryCandle
    /\ IsSet(sig.exit_at)
         => (EntryCandles # {} /\ Val(sig.exit_at) >= FirstEntryCandle)
    /\ IsSet(sig.mfe)
         => \E k \in 1..Len(candles) :
               /\ EntryCandles # {} /\ k >= FirstEntryCandle
               /\ Val(sig.mfe) = compute_mfe_mae(sig.direction, sig.entry,
                                                 candles[k].high, candles[k].low)[1]
    /\ IsSet(sig.mae)
         => \E k \in 1..Len(candles) :
               /\ EntryCandles # {} /\ k >= FirstEntryCandle
               /\ Val(sig.mae) = compute_mfe_mae(sig.direction, sig.entry,
                                                 candles[k].high, candles[k].low)[2]

\* A step of a process other than the evaluator.
OtherWriterStep == pc' = pc /\ i' = i

\* C8, as claimed: no process other than the evaluator writes entered_at,
\* status, exit_at, exit_level, r_multiple or finalized.
C8_SoleMutator ==
    [][OtherWriterStep
          => /\ sig'.entered_at = sig.entered_at
             /\ sig'.status = sig.status
             /\ sig'.exit_at = sig.exit_at
             /\ sig'.exit_level = sig.exit_level
             /\ sig'.r_multiple = sig.r_multiple
             /\ sig'.finalized = sig.finalized]_vars

\* C8, amended: besides the evaluator, only the closure sync writes status,
\* exit_at, exit_level, r_multiple or finalized, and it writes status close,
\* finalized true, an exit_at and an exit_level of valid_levels; only the entry
\* sender writes entered_at, on a signal it marks futures_entry_sent.
C8_OtherWriters ==
    [][OtherWriterStep
          => /\ sig'.entered_at # sig.entered_at
                  => /\ ~sig.futures_entry_sent /\ sig'.futures_entry_sent
                     /\ sig'.status = sig.status
                     /\ sig'.exit_at = sig.exit_at
                     /\ sig'.exit_level = sig.exit_level
                     /\ sig'.r_multiple = sig.r_multiple
                     /\ sig'.finalized = sig.finalized
             /\ (\/ sig'.status # sig.status
                 \/ sig'.exit_at # sig.exit_at
                 \/ sig'.exit_level # sig.exit_level
                 \/ sig'.r_multiple # sig.r_multiple
                 \/ sig'.finalized # sig.finalized)
                  => /\ syncPc = "write" /\ syncPc' = "idle"
                     /\ sig'.status = "close"
                     /\ sig'.finalized
                     /\ IsSet(sig'.exit_at)
                     /\ sig'.exit_level \in valid_levels
                     /\ sig'.entered_at = sig.entered_at]_vars

C8_Witness ==
    /\ sig.finalized
    /\ sig.status = "close"
    /\ sig.exit_level = "tp1"
    /\ sig.futures_entry_sent
    /\ IsSet(sig.entered_at)

\* C9: the evaluator's update is applied to the row as it was read, and a
\* signal stored as finalized keeps a terminal status.
C9_SingleWriter ==
    [][/\ pc = "finish"
            => /\ sig.status = s.status
               /\ sig.finalized = s.finalized
               /\ sig.exit_level = s.exit_level
       /\ sig.finalized => sig'.status \in TerminalStatuses]_vars

\* C10: the stored partial_realized stays within [0,1] and never decreases.
C10_PartialRealizedBounds ==
    [][/\ sig'.partial_realized \in 0..WHOLE
       /\ sig'.partial_realized >= sig.partial_realized]_vars

C10_Witness ==
    /\ pc = "idle"
    /\ sig.exit_level = "sl_trailing"
    /\ sig.partial_realized = WHOLE
    /\ sig.finalized

\* The row was inserted with stop_loss on the loss side of entry and tp1 on the
\* profit side.
StopAndTargetAroundEntry ==
    IF created.direction = "BUY"
    THEN created.stop_loss < created.entry /\ created.entry < created.tp1
    ELSE created.stop_loss > created.entry /\ created.entry > created.tp1

\* a is at least as far to the profit side as b.
AtOrBeyond(a, b) == IF created.direction = "BUY" THEN a >= b ELSE a <= b

\* C11: for a signal inserted with stop_loss on the loss side of entry and tp1
\* on the profit side, no step moves the stored stop_loss away from the profit
\* side, and a row stored with status tp1 or tp2, or closed by the breakeven or
\* trailing exit, has its stop_loss at or beyond entry.
C11_StopRatchet ==
    [][StopAndTargetAroundEntry
          => /\ AtOrBeyond(sig'.stop_loss, sig.stop_loss)
             /\ (sig'.status \in {"tp1", "tp2"}
                    \/ sig'.exit_level \in {"be", "sl_trailing"})
                  => AtOrBeyond(sig'.stop_loss, sig'.entry)]_vars

C11_Witness ==
    /\ StopAndTargetAroundEntry
    /\ sig.exit_level = "sl_trailing"
    /\ sig.stop_loss = sig.tp1
    /\ \E k \in 1..Len(events) : events[k].event = "hit_tp2" /\ events[k].ts < Val(sig.exit_at)

\* C12: stop_loss_initial, once stored, is the stop_loss the row was inserted
\* with; it is stored before any other stop_loss is; and every evaluation
\* divides by |entry - that inserted stop_loss| in r_at.
C12_StopInitialWriteOnce ==
    /\ IsSet(sig.stop_loss_initial)
          => sig.stop_loss_initial = Some(created.stop_loss)
    /\ sig.stop_loss # created.stop_loss => IsSet(sig.stop_loss_initial)
    /\ pc \in {"loop", "finish"}
          => Abs(s.entry - StopInitial(s)) = Abs(created.entry - created.stop_loss)

C12_Witness ==
    /\ pc = "loop"
    /\ s.stop_loss # created.stop_loss
    /\ s.stop_loss_initial = Some(created.stop_loss)
    /\ sig.stop_loss_initial = Some(created.stop_loss)

\* The position of a status along open -> tp1 -> tp2 -> {tp3, close}.
Rank(st) ==
    CASE st = "open" -> 0
      [] st = "tp1" -> 1
      [] st = "tp2" -> 2
      [] OTHER -> 3

\* R of a price for the row as inserted, times Scale.
RCreated(price) ==
    LET risk == Abs(created.entry - created.stop_loss)
        gain == IF created.direction = "BUY" THEN price - created.entry
                ELSE created.entry - price
    IN (gain * Scale) \div risk

\* The realized fraction and profit that a status (and exit level) stands for
\* when each tranche was added once: TP1 on reaching tp1, TP2 on reaching tp2,
\* the rest on tp3 or on the trailing exit, nothing on the other exits.
TranchesOnce(st, lvl, real, profit) ==
    LET p1 == RCreated(created.tp1) * TP1_FRAC
        p2 == p1 + RCreated(created.tp2) * TP2_FRAC
    IN CASE st = "open" -> real = 0 /\ profit = 0
         [] st = "tp1" -> real = TP1_FRAC /\ profit = p1
         [] st = "tp2" -> real = TP1_FRAC + TP2_FRAC /\ profit = p2
         [] st = "tp3" -> /\ real = WHOLE
                          /\ profit = p2 + RCreated(created.tp3) * TP3_FRAC
         [] st = "close" /\ lvl = "sl" -> real = 0 /\ profit = 0
         [] st = "close" /\ lvl = "be" -> real = TP1_FRAC /\ profit = p1
         [] st = "close" /\ lvl = "sl_trailing" ->
                /\ real = WHOLE
                /\ profit = p2 + RCreated(created.tp1) * TP3_FRAC
         [] OTHER -> FALSE

\* C13: no step moves the stored status backward along open -> tp1 -> tp2 ->
\* {tp3, close} or out of a terminal status, the same holds for the status of
\* an evaluation from candle to candle, and the realized fraction and profit,
\* stored or of an evaluation, are those of each tranche added once.
C13_NoBackwardOrDuplicate ==
    [][/\ Rank(sig'.status) >= Rank(sig.status)
       /\ sig.status \in TerminalStatuses => sig'.status = sig.status
       /\ TranchesOnce(sig'.status, sig'.exit_level,
                       sig'.partial_realized, sig'.partial_profit)
       /\ (pc = "loop" /\ pc' \in {"loop", "finish"})
            => /\ Rank(loc'.status) >= Rank(loc.status)
               /\ Rank(loc.status) >= Rank(s.status)
               /\ TranchesOnce(loc'.status, loc'.exit_level,
                               loc'.partial_real, loc'.partial_profit)]_vars

\* An evaluation that read the stored status tp1 and advanced it to tp2.
C13_Witness ==
    /\ pc = "finish"
    /\ s.status = "tp1"
    /\ s.partial_realized = TP1_FRAC
    /\ loc.status = "tp2"
    /\ loc.partial_real = TP1_FRAC + TP2_FRAC

\* C14: apply_state_machine on a row with a missing required column leaves the
\* signals row as it is, appends exactly one error event, whatever events are
\* already there, and returns without entering the loop over candles.
C14_MissingField ==
    [][(pc = "start" /\ missing(s) # {})
          => /\ sig' = sig
             /\ events' = Append(events, Ev("error", None, None))
             /\ pc' = "idle"
             /\ win' = win /\ i' = i /\ loc' = loc]_vars

C14_Witness ==
    /\ pc = "idle"
    /\ missing(sig) # {}
    /\ ErrorsLogged = MaxErrors
    /\ Len(candles) > 0
    /\ sig.status = "open"

\* C15: no step changes any column of a row with a missing required column.
C15_UntouchedOnValidationFailure ==
    [][missing(sig) # {} => sig' = sig]_vars

\* C16: apply_state_machine on a valid row whose candle fetch returns nothing
\* leaves the signals row and the events as they are, and returns.
C16_EmptyWindowNoOp ==
    [][(pc = "start" /\ missing(s) = {} /\ Len(candles) = 0)
          => /\ sig' = sig
             /\ events' = events
             /\ pc' = "idle"]_vars

\* A tick has run on a valid row with no candle stored.
C16_Witness ==
    /\ pc = "idle"
    /\ missing(sig) = {}
    /\ candles = <<>>
    /\ IsSet(sig.stop_loss_initial)
    /\ events = <<>>
    /\ sig.status = "open"

\* The candle the loop is at reaches the price p against the position (the stop
\* side): low <= p for BUY, high >= p for SELL.
StopSideTouched(p) ==
    IF s.direction = "BUY" THEN candles[i].low <= p ELSE candles[i].high >= p

StopExitLevels == {"sl", "be", "sl_trailing"}

\* The step is one of the evaluator: it moves the evaluator's position.
EvaluatorStep == pc' # pc \/ i' # i

\* C17: on a tested candle that starts with status tp1 the stop is entry: if
\* the candle reaches entry the evaluation ends there with status close and
\* exit_level be and partial_profit as it was, and otherwise no stop exit is
\* taken, whatever the stored stop_loss is; the row is then stored with
\* r_multiple equal to that partial_profit.
C17_BreakevenExit ==
    [][/\ (EvaluatorStep /\ CandleTested /\ loc.status = "tp1")
            => IF StopSideTouched(s.entry)
               THEN /\ pc' = "finish"
                    /\ loc'.status = "close"
                    /\ loc'.exit_level = "be"
                    /\ loc'.exit_at = Some(i)
                    /\ loc'.partial_profit = loc.partial_profit
               ELSE loc'.exit_level \notin StopExitLevels
       /\ (EvaluatorStep /\ pc = "finish" /\ loc.exit_level = "be")
            => /\ sig'.status = "close"
               /\ sig'.exit_level = "be"
               /\ sig'.partial_profit = loc.partial_profit
               /\ sig'.r_multiple = Some(loc.partial_profit)]_vars

\* A breakeven exit stored after TP1, taken on a candle above the inserted stop.
C17_Witness ==
    /\ pc = "idle"
    /\ sig.status = "close"
    /\ sig.exit_level = "be"
    /\ sig.r_multiple = Some(RCreated(created.tp1) * TP1_FRAC)
    /\ ~AtOrBeyond(created.stop_loss,
                   IF sig.direction = "BUY" THEN candles[Val(sig.exit_at)].low
                   ELSE candles[Val(sig.exit_at)].high)

CascadeBeforeTp3 ==
    LET c1 == loc.status = "open" /\ TargetTouched(s.tp1)
        st1 == IF c1 THEN "tp1" ELSE loc.status
        re1 == IF c1 THEN loc.partial_real + TP1_FRAC ELSE loc.partial_real
        pp1 == IF c1 THEN loc.partial_profit + RCreated(s.tp1) * TP1_FRAC
               ELSE loc.partial_profit
        c2 == st1 \in {"tp1", "open"} /\ TargetTouched(s.tp2)
    IN << IF c2 THEN "tp2" ELSE st1,
          IF c2 THEN re1 + TP2_FRAC ELSE re1,
          IF c2 THEN pp1 + RCreated(s.tp2) * TP2_FRAC ELSE pp1,
          (IF c1 THEN <<"hit_tp1">> ELSE <<>>)
              \o (IF c2 THEN <<"hit_tp2">> ELSE <<>>) >>

\* The types of the events inserted by the step, in insertion order.
NewEventSeq ==
    [k \in 1..(Len(events') - Len(events)) |-> events'[Len(events) + k].event]

\* C19: on a tested candle that starts with status open, tp1 or tp2 and
\* reaches tp3 without reaching the stop, the evaluation ends there with status
\* tp3 and exit_level tp3, partial_profit raised, after the TP1 and TP2 steps
\* of the candle, by r_at(tp3) times the fraction not yet realized,
\* partial_realized 1, and hit_tp3 inserted last, after the hit_tp1 and hit_tp2
\* of the candle; no later candle is processed.
C19_Tp3Terminal ==
    [][(/\ EvaluatorStep /\ CandleTested
        /\ loc.status \in ActiveStatuses
        /\ ~StopTouched
        /\ TargetTouched(s.tp3))
          => LET b == CascadeBeforeTp3 IN
             /\ pc' = "finish"
             /\ i' = i
             /\ loc'.status = "tp3"
             /\ loc'.exit_level = "tp3"
             /\ loc'.exit_at = Some(i)
             /\ loc'.partial_profit = b[3] + RCreated(s.tp3) * Max(0, WHOLE - b[2])
             /\ loc'.partial_real = WHOLE
             /\ NewEventSeq = (IF IsSet(loc.entered_at) THEN <<>> ELSE <<"entered">>)
                                 \o b[4] \o <<"hit_tp3">>]_vars

\* tp3 reached from open through TP1 and TP2 on the entry candle, the first of
\* two: the loop stopped there.
C19_Witness ==
    /\ pc = "finish"
    /\ s.status = "open"
    /\ loc.status = "tp3"
    /\ loc.exit_at = Some(1)
    /\ win = 2
    /\ loc.partial_real = WHOLE
    /\ [k \in 1..Len(events) |-> events[k].event]
          = <<"entered", "hit_tp1", "hit_tp2", "hit_tp3">>

\* C20: the update of an evaluation that ended in a terminal status stores
\* exit_at as the candle the loop stopped at, the exit_level, r_multiple equal
\* to the final partial_profit and finalized true; the update of an evaluation
\* that ran out of candles in a status that is not terminal leaves exit_at,
\* exit_level, r_multiple and finalized as they are stored.
C20_FinalizationFields ==
    [][(EvaluatorStep /\ pc = "finish")
          => /\ (loc.status \in TerminalStatuses) <=> IsSet(loc.exit_at)
             /\ IF loc.status \in TerminalStatuses
                THEN /\ sig'.exit_at = Some(i)
                     /\ sig'.exit_level = loc.exit_level
                     /\ loc.exit_level \in StopExitLevels \cup {"tp3"}
                     /\ sig'.partial_profit = loc.partial_profit
                     /\ sig'.r_multiple = Some(loc.partial_profit)
                     /\ sig'.finalized
                ELSE /\ i = win
                     /\ sig'.exit_at = sig.exit_at
                     /\ sig'.exit_level = sig.exit_level
                     /\ sig'.r_multiple = sig.r_multiple
                     /\ sig'.finalized = sig.finalized
                     /\ ~sig'.finalized]_vars

\* A row finalized at the first of two candles.
C20_Witness ==
    /\ pc = "idle"
    /\ Len(candles) = 2
    /\ lastWin = 2
    /\ sig.finalized
    /\ sig.exit_at = Some(1)
    /\ sig.exit_level = "tp3"
    /\ sig.r_multiple = Some(sig.partial_profit)

\* The rows of the events table with a type.
RowsOfType(type) == {k \in 1..Len(events) : events[k].event = type}

\* C21: whatever calls of log_event were made, the events table holds at most
\* one row of each milestone type, and a call with a type that is not a
\* milestone inserts a row whatever the table holds.
C21_MilestoneDedup ==
    /\ \A type \in UNIQUE_EVENTS : Cardinality(RowsOfType(type)) <= 1
    /\ \A type \in LoggedTypes \ UNIQUE_EVENTS :
          LET e == Ev(type, None, None)
          IN log_event(events, e) = Append(events, e)
    /\ \A type \in UNIQUE_EVENTS :
          LET e == Ev(type, None, None)
          IN log_event(events, e) = IF RowsOfType(type) = {} THEN Append(events, e)
                                    ELSE events

\* Every milestone was logged, and error as often as the bound allows.
C21_Witness ==
    /\ \A type \in UNIQUE_EVENTS : Cardinality(RowsOfType(type)) = 1
    /\ Cardinality(RowsOfType("error")) = MaxErrors
    /\ Len(events) = Cardinality(UNIQUE_EVENTS) + MaxErrors

\* The tick holds the result of fetch_open_signals.
Fetched == tick.pc \in {"loop", "done", "aborted"}

C23_FailureIsolation ==
    tick.pc \in {"done", "aborted"} =>
        tick.evaluated = [k \in DOMAIN tick.batch |-> tick.batch[k].id]

\* C24: over the iterations of the sender's main loop at most one MARKET entry
\* order is sent for the signal, also when wait_for_fill times out or the
\* placement of the SL and TP orders raises.
C24_AtMostOneEntryOrder == sender.orders <= 1

\* positionRisk reported no entry with a positionAmt other than 0.
ReportedFlat(resp) ==
    resp.is_list /\ \A k \in DOMAIN resp.amts : resp.amts[k] = 0

\* C25: the closure sync writes status close and finalized only in an
\* iteration in which positionRisk reported a positionAmt of 0 and at least
\* one user trade was found; in any other iteration the row is unchanged.
C25_ClosesOnlyFlatPosition ==
    [][/\ (sig' # sig /\ syncPc = "write") =>
            /\ ReportedFlat(syncSeen.resp)
            /\ syncSeen.trades >= 1
       /\ (syncPc = "idle" /\ syncPc' = "idle" /\ syncSeen' # syncSeen) =>
            sig' = sig]_vars

\* update_signal_closed writes the row from the exit_info it was handed.
ClosedWrite == syncPc = "write" /\ syncPc' = "idle"

\* A manual close: exit_type 'manual' with no level among the five.
ManualClose(info) ==
    Lower(info.exit_type) = "manual" /\ Lower(info.exit_level) \notin valid_levels

\* C26: whatever exit_info update_signal_closed is handed, the exit_level it
\* writes is one of sl, tp1, tp2, tp3, be (never manual or null), the
\* exit_type it writes is sl exactly when that level is sl and tp otherwise,
\* and a manual close is written as tp1 when profit_pct >= 0 and as sl when
\* profit_pct < 0.
C26_ExitLevelNormalized ==
    [][ClosedWrite =>
        /\ sig'.exit_level \in valid_levels
        /\ sig'.exit_level \notin {"manual", "null"}
        /\ sig'.exit_type = (IF sig'.exit_level = "sl" THEN "sl" ELSE "tp")
        /\ ManualClose(syncInfo) =>
              sig'.exit_level = (IF syncInfo.profit >= 0 THEN "tp1" ELSE "sl")]_vars

\* A manual close with exit_level None and profit_pct 0 was written as tp1
\* with exit_type tp.
C26_Witness ==
    /\ syncPc = "idle"
    /\ syncSeen # Idle
    /\ ManualClose(syncSeen)
    /\ syncSeen.exit_level = "null"
    /\ syncSeen.profit = 0
    /\ sig.finalized
    /\ sig.exit_level = "tp1"
    /\ sig.exit_type = "tp"

\* The orders of the openOrders answer that the cleanup cancelled.
CancelledOrders == DOMAIN cleanup.orders \ cleanup.open

\* C27: an order the cleanup cancelled has a symbol with no nonzero
\* positionAmt in the positionRisk answer that cleanup took, has reduceOnly
\* true and has one of the types STOP_MARKET, TAKE_PROFIT_MARKET, STOP,
\* TAKE_PROFIT; an order that fails one of the three is still open.
C27_CleanupRestricted ==
    \A k \in DOMAIN cleanup.orders :
        LET o == cleanup.orders[k]
            eligible == /\ o.symbol \in Symbols
                        /\ cleanup.snap[o.symbol] = 0
                        /\ o.reduceOnly = TRUE
                        /\ o.type \in {"STOP_MARKET", "TAKE_PROFIT_MARKET",
                                         "STOP", "TAKE_PROFIT"}
        IN /\ k \in CancelledOrders => eligible
           /\ ~eligible => k \in cleanup.open

\* A cleanup is over that cancelled one order and left another open, a
\* reduceOnly stop order of a symbol whose position was in the snapshot.
C27_Witness ==
    /\ cleanup.pc = "done"
    /\ \E j \in CancelledOrders, k \in cleanup.open :
          /\ cleanup.orders[k].reduceOnly
          /\ cleanup.orders[k].type = "STOP_MARKET"
          /\ cleanup.orders[k].symbol \in Symbols
          /\ cleanup.snap[cleanup.orders[k].symbol] # 0
          /\ cleanup.orders[j].type = "TAKE_PROFIT"

C29_ReplayMatchesOneShot ==
    (pc = "idle" /\ lastWin = Len(candles) /\ lastWin > 0) =>
        LET one == OneShot(Fresh, Len(candles))
        IN /\ sig.status = one.status
           /\ sig.partial_realized = one.partial_realized
           /\ sig.partial_profit = one.partial_profit
           /\ sig.exit_level = one.exit_level
           /\ sig.exit_at = one.exit_at

\* The signal enters on the candle the loop is at.
EntersHere == pc = "loop" /\ ~IsSet(loc.entered_at) /\ ContainsEntry(s, candles[i])

\* C30: the candle on which the signal enters is tested for stop and targets
\* in the same iteration, the stop test against the stop of the status held
\* before the candle's targets: if it reaches the inserted stop the evaluation
\* ends there with exit_level sl; if it does not and touches tp1 but not tp2,
\* the status becomes tp1 with partial_realized 0.33 and partial_profit
\* r_at(tp1) x 0.33 and no exit, although the candle reaches entry, the stop
\* of status tp1.
C30_EntryCandleSameBarTp1 ==
    [][(EvaluatorStep /\ EntersHere) =>
        /\ loc'.entered_at = Some(i)
        /\ IF StopSideTouched(created.stop_loss)
           THEN /\ pc' = "finish"
                /\ loc'.status = "close"
                /\ loc'.exit_level = "sl"
                /\ loc'.exit_at = Some(i)
           ELSE (TargetTouched(s.tp1) /\ ~TargetTouched(s.tp2)) =>
                  /\ StopSideTouched(s.entry)
                  /\ loc'.status = "tp1"
                  /\ loc'.partial_real = TP1_FRAC
                  /\ loc'.partial_profit = RCreated(created.tp1) * TP1_FRAC
                  /\ ~IsSet(loc'.exit_at)
                  /\ loc'.exit_level = "null"]_vars

\* A one-candle evaluation is about to store tp1: the candle went beyond entry
\* on the stop side, above the inserted stop, and touched tp1.
C30_Witness ==
    /\ pc = "finish"
    /\ win = 1
    /\ ~IsSet(s.entered_at)
    /\ loc.entered_at = Some(1)
    /\ loc.status = "tp1"
    /\ loc.partial_real = TP1_FRAC
    /\ ~IsSet(loc.exit_at)
    /\ IF s.direction = "BUY" THEN candles[1].low < s.entry
       ELSE candles[1].high > s.entry

\* C31: a stored status tp1 comes with stop_loss = entry and a stored status
\* tp2 with stop_loss = tp1, and stop_loss_initial then holds the stop the
\* signal was inserted with.
C31_PersistedStopByStatus ==
    /\ sig.status = "tp1" =>
          /\ sig.stop_loss = created.entry
          /\ sig.stop_loss_initial = Some(created.stop_loss)
    /\ sig.status = "tp2" =>
          /\ sig.stop_loss = created.tp1
          /\ sig.stop_loss_initial = Some(created.stop_loss)

\* A tick that read the stored status tp1 with stop_loss = entry has stored
\* status tp2 with stop_loss = tp1.
C31_Witness ==
    /\ pc = "idle"
    /\ sig.status = "tp2"
    /\ sig.stop_loss = created.tp1
    /\ sig.stop_loss_initial = Some(created.stop_loss)
    /\ \E k \in DOMAIN events : events[k].event = "hit_tp1" /\ events[k].ts = 1
    /\ \E k \in DOMAIN events : events[k].event = "hit_tp2" /\ events[k].ts = 2

\* a <= b for optional numbers, None being below every number.
NotAbove(a, b) == ~IsSet(a) \/ (IsSet(b) /\ Val(a) <= Val(b))

\* The candle the loop is at precedes the first candle that contains entry.
BeforeEntry == EntryCandles = {} \/ i < FirstEntryCandle

\* C32: the stored mfe never decreases and the stored mae never increases;
\* within an evaluation a candle before the entry candle and a candle on
\* which the evaluation exits leave mfe and mae as they were.
C32_ExcursionBookkeeping ==
    [][/\ NotAbove(sig.mfe, sig'.mfe)
       /\ IsSet(sig.mae) => (IsSet(sig'.mae) /\ Val(sig'.mae) <= Val(sig.mae))
       /\ (EvaluatorStep /\ pc = "loop" /\ (BeforeEntry \/ IsSet(loc'.exit_at)))
             => /\ loc'.mfe_best = loc.mfe_best
                /\ loc'.mae_worst = loc.mae_worst]_vars

\* C33: for a signal whose stop_loss_initial equals entry, r_at is 0 for every
\* price and direction, no error event is recorded, a tested candle that
\* touches tp1 without touching the stop advances the status, and
\* partial_profit stays 0 through every tranche.
C33_DegenerateRisk ==
    [][(EvaluatorStep /\ pc = "loop") =>
        /\ StopInitial(s) = s.entry
        /\ \A price \in Prices, dire \in {"BUY", "SELL"} :
              r_at(price, s.entry, StopInitial(s), dire) = 0
        /\ loc'.partial_profit = 0
        /\ \A k \in DOMAIN events' : events'[k].event # "error"
        /\ (CandleTested /\ loc.status = "open" /\ ~StopTouched
              /\ TargetTouched(s.tp1))
             => /\ loc'.status \in {"tp1", "tp2", "tp3"}
                /\ loc'.partial_real >= TP1_FRAC]_vars

\* All three tranches were realized over two ticks and stored with a
\* partial_profit and r_multiple of 0.
C33_Witness ==
    /\ pc = "idle"
    /\ sig.stop_loss_initial = Some(sig.entry)
    /\ sig.status = "tp3"
    /\ sig.exit_level = "tp3"
    /\ sig.partial_realized = WHOLE
    /\ sig.partial_profit = 0
    /\ sig.r_multiple = Some(0)
    /\ \E k \in DOMAIN events : events[k].event = "hit_tp1" /\ events[k].ts = 1
    /\ \E k \in DOMAIN events : events[k].event = "hit_tp3" /\ events[k].ts = 2

\* C34: a stored status open comes with partial_realized 0, a stored tp1 with
\* 0.33 and a stored tp2 with 0.66, for every signal that passes the
\* validation, whatever the order of its targets.
C34_StatusFractionCoupled ==
    /\ sig.status = "open" => sig.partial_realized = 0
    /\ sig.status = "tp1" => sig.partial_realized = TP1_FRAC
    /\ sig.status = "tp2" => sig.partial_realized = TP1_FRAC + TP2_FRAC

\* C35: a BUY record and the SELL record that reflects each of its prices
\* around the entry, evaluated over a candle sequence and its reflection, go
\* through the same statuses and store the same partial_realized,
\* partial_profit, mfe, mae, exit_level, exit candle and r_multiple, and log
\* the same events at the same candles, at reflected prices.
C35_MirrorSymmetry ==
    lastPatch # Idle =>
        LET b == lastPatch.buy
            m == lastPatch.sell
        IN /\ m.row.status = b.row.status
           /\ m.row.partial_realized = b.row.partial_realized
           /\ m.row.partial_profit = b.row.partial_profit
           /\ m.row.mfe = b.row.mfe
           /\ m.row.mae = b.row.mae
           /\ m.row.exit_level = b.row.exit_level
           /\ m.row.exit_at = b.row.exit_at
           /\ m.row.entered_at = b.row.entered_at
           /\ m.row.r_multiple = b.row.r_multiple
           /\ m.row.finalized = b.row.finalized
           /\ m.row.stop_loss = Reflect(b.row.stop_loss, sig.entry)
           /\ Len(m.events) = Len(b.events)
           /\ \A k \in DOMAIN b.events :
                /\ m.events[k].event = b.events[k].event
                /\ m.events[k].ts = b.events[k].ts
                /\ m.events[k].price = Reflect(b.events[k].price, sig.entry)

\* Both records took two tranches on the first candle and were stopped at
\* the trailing stop on the second.
C35_Witness ==
    /\ lastPatch # Idle
    /\ Len(candles) = 2
    /\ lastPatch.buy.row.status = "close"
    /\ lastPatch.buy.row.exit_level = "sl_trailing"
    /\ lastPatch.sell.row.status = "close"
    /\ lastPatch.sell.row.exit_level = "sl_trailing"
    /\ lastPatch.sell.row.direction = "SELL"
    /\ lastPatch.buy.row.partial_profit > 0
    /\ Len(lastPatch.sell.events) = 4

\* C36: whatever the interleaving of the existence checks and inserts of
\* concurrent log_event calls, the events table holds at most one row for
\* each milestone type of the signal.
C36_MilestoneUniqueUnderInterleaving ==
    \A type \in UNIQUE_EVENTS :
        Cardinality({k \in DOMAIN events : events[k].event = type}) <= 1

\* C37: with event inserts that may fail, a stored status of tp1, tp2 or tp3
\* comes with a hit_tp1 event of the signal, and a finalized signal with a
\* hit_tp3, hit_sl or closed event.
C37_PersistedTransitionsHaveEvents ==
    /\ sig.status \in {"tp1", "tp2", "tp3"} =>
          \E k \in DOMAIN events : events[k].event = "hit_tp1"
    /\ sig.finalized =>
          \E k \in DOMAIN events :
              events[k].event \in {"hit_tp3", "hit_sl", "closed"}

\* Row id is in the table, open and not marked as sent.
PendingId(id) ==
    \E k \in DOMAIN table : table[k].id = id /\ PendingAt(k)

\* An entry order was sent for row id, or the row is marked as sent.
HandledId(id) ==
    \/ id \in sender.orders
    \/ \E k \in DOMAIN table : table[k].id = id /\ table[k].futures_entry_sent

\* C38: every signal that is open with futures_entry_sent false is eventually
\* sent as an entry order or marked futures_entry_sent true, also when the
\* newest pending signal fails in every iteration.
C38_EveryPendingEventuallyHandled ==
    \A id \in 1..MaxSignals : PendingId(id) ~> HandledId(id)

\* C39: over repeated runs, also runs in which the parsing of the OCO response
\* or the update of the row fails after the OCO was accepted, at most one
\* TP1+SL OCO is placed for a signal, and only while it is in entry_filled
\* with an entry order reported FILLED with executedQty > 0.
C39_AtMostOneOcoPerSignal ==
    /\ oco.placed <= 1
    /\ \A r \in oco.placedFor :
          /\ r.exchange_sync_status = "entry_filled"
          /\ r.order.status = "FILLED"
          /\ r.order.executedQty > 0

\* C40: the stop-loss order is for the whole quantity floored to step_size,
\* and each take-profit order is for a multiple of step_size of at least
\* min_qty, the three together for no more than the stop-loss quantity,
\* whatever the fractions and the step size.
C40_ProtectiveQuantities ==
    (protective.called /\ ~protective.result.raised) =>
        LET a == protective.args
            r == protective.result
        IN /\ r.sl = quantize_to_step(a.qty, a.step_size)
           /\ r.sl % a.step_size = 0
           /\ \A k \in 1..3 :
                 r.tps[k] # 0 => /\ r.tps[k] % a.step_size = 0
                                 /\ r.tps[k] >= a.min_qty
           /\ r.tps[1] + r.tps[2] + r.tps[3] <= r.sl

\* Fractions summing to more than 1 were normalized and three take-profit
\* orders, each of several lots, took the whole quantity.
C40_Witness ==
    /\ protective.called
    /\ ~protective.result.raised
    /\ protective.args.fractions[1] + protective.args.fractions[2]
         + protective.args.fractions[3] > WHOLE
    /\ protective.args.step_size > 1
    /\ \A k \in 1..3 : protective.result.tps[k] > 0
    /\ protective.result.tps[1] + protective.result.tps[2]
         + protective.result.tps[3] = protective.result.sl

====
